---------------------------- MODULE Spec2Model ----------------------------
(***************************************************************************)
(* Model of the ISF pricing workflow (dynamic_pricing.py,                  *)
(* inshape_pricing_formatter.py, split_club_files.py).                     *)
(*                                                                         *)
(* Text is modelled character by character: a Python str is a sequence of  *)
(* one-character strings, so "CFF:" is <<"C","F","F",":">>.  The regular   *)
(* expressions of the source are written out as the scans they perform.    *)
(***************************************************************************)
EXTENDS Integers, Sequences, FiniteSets, TLC

VARIABLES
    raw,        \* SpecNorm: the raw club name handed to normalize_club_name
    alt,        \* SpecNorm: a second raw name, a variation of raw
    key,        \* SpecNorm: normalize_club_name(raw), or NoKey before the call
    altKey,     \* SpecNorm: normalize_club_name(alt), or NoKey before the call
    rekey,      \* SpecNorm: normalize_club_name(key), or NoKey before the call
    varied,     \* SpecNorm: the kinds of variation applied to alt, in order
    nfrag,      \* SpecNorm: number of fragments raw was assembled from
    npc,        \* SpecNorm: "build" | "vary" | "keyed" | "rekeyed" | "off"
    csvHeader,  \* SpecCsv: the header row of the CSV file
    csvRows,    \* SpecCsv: the data rows of the CSV file, in file order
    csvTarget,  \* SpecCsv: the club name read_pricing_content_from_csv is given
    fmtOut,     \* SpecCsv: what process_csv_file wrote, or Unset
    csvOut,     \* SpecCsv: what read_pricing_content_from_csv returned, or Unset
    cpc,        \* SpecCsv: "load" | "formatted" | "read" | "off"
    txtDir,     \* SpecMatch: names of the files of the text directory, as listed
    mdDir,      \* SpecMatch: names of the files of the document directory, as listed
    clubMapping,\* SpecMatch: what build_club_mapping returned, or Unset
    mpc,        \* SpecMatch: "list" | "mapped" | "off"
    csvExists,  \* SpecRun: whether the CSV file exists (csv_file.exists())
    txtText,    \* SpecRun: the content of each text file, by file name
    item,       \* SpecRun: position of run's loop in mapping.items(), from 1
    csvResult,  \* SpecRun: run's local csv_result for the current text file
    pricingContent,      \* SpecRun: run's local pricing_content, None as <<>>
    successCount,        \* SpecRun: run's local success_count
    failedCount,         \* SpecRun: run's local failed_count
    totalFilesProcessed, \* SpecRun: run's local total_files_processed
    mdText,     \* SpecRun: text of each file of the document directory
    updatedDir, \* SpecRun: text of each file of the output directory
    mdIdx,      \* SpecRun: position in the documents of the current item
    docLog,     \* SpecRun: what the loop did with each document, in order
    sweep,      \* SpecRun: the last loop over the output directory: its
                \* counters and what the fee splice returned for each file
    rpc,        \* SpecRun: "start" | "txt" | "md" | "done" | "off"
    docText,    \* SpecPricing, SpecFee: the text of a document
    docParts,   \* SpecPricing, SpecFee: number of fragments docText is made of
    newContent, \* SpecPricing: the pricing text given to the pricing splice
    priced,     \* SpecPricing: result of the pricing splice on docText, or Unset
    repriced,   \* SpecPricing: result of the pricing splice on its own output
    feeOut,     \* SpecFee: result of the fee splice on docText, or Unset
    feeAgain,   \* SpecFee: result of the fee splice on its own output
    spc,        \* "build" | "priced" | "repriced" | "fee" | "again" | "off"
    splitText,  \* SpecSplit: the text of the formatted multi-club file
    splitLines, \* SpecSplit: number of lines splitText is made of
    clubSections, \* SpecSplit: what split_club_sections returned, or Unset
    clubFiles,  \* SpecSplit: text of each file of the output directory, or Unset
    xpc         \* SpecSplit: "build" | "split" | "saved" | "off"

normVars == <<raw, alt, key, altKey, rekey, varied, nfrag, npc>>

csvVars == <<csvHeader, csvRows, csvTarget, fmtOut, csvOut, cpc>>

matchVars == <<txtDir, mdDir, clubMapping, mpc>>

runVars ==
    <<csvExists, txtText, item, csvResult, pricingContent, successCount,
      failedCount, totalFilesProcessed, mdText, updatedDir, mdIdx, docLog,
      sweep, rpc>>

spliceVars ==
    <<docText, docParts, newContent, priced, repriced, feeOut, feeAgain, spc>>

splitVars == <<splitText, splitLines, clubSections, clubFiles, xpc>>

vars == <<normVars, csvVars, matchVars, runVars, spliceVars, splitVars>>

\* What the actions of each specification leave alone.
NormFrame == UNCHANGED <<csvVars, matchVars, runVars, spliceVars, splitVars>>
CsvFrame == UNCHANGED <<normVars, matchVars, runVars, spliceVars, splitVars>>
MatchFrame == UNCHANGED <<normVars, csvVars, runVars, spliceVars, splitVars>>
SpliceFrame == UNCHANGED <<normVars, csvVars, matchVars, runVars, splitVars>>
SplitFrame == UNCHANGED <<normVars, csvVars, matchVars, runVars, spliceVars>>
\* run reads the CSV file and the two directories and does not change them.
RunFrame ==
    UNCHANGED <<normVars, csvVars, spliceVars, splitVars, txtDir, mdDir, mpc,
                csvExists, txtText, mdText>>

-----------------------------------------------------------------------------
(* Bounds of the model.                                                    *)

\* Number of fragments a raw club name is assembled from.
MaxFrags == 3
\* Number of variations (case, separator, prefix) applied to a raw name.
MaxVary == 1
\* Number of data rows in the CSV file.
MaxRows == 3
\* Number of files in the text directory.
MaxTxt == 2
\* Number of files in the document directory.
MaxMd == 3
\* Number of documents of one run for which the copy or a read raises.
MaxFaults == 1
\* Number of data rows of the CSV file of one run.
MaxRunRows == 1
\* Number of fragments a document is assembled from.
MaxDocParts == 4
\* Number of lines of the formatted multi-club file.
MaxSplitLines == 4

-----------------------------------------------------------------------------
(* Each specification drives one part of the program; the variables of the *)
(* other parts stay in their idle state.                                   *)

\* Marks a result that has not been computed yet (no string equals it).
NoKey == <<"<none>">>

\* Marks an output that has not been produced yet.
Unset == [ret |-> "unset"]

NormIdle ==
    /\ raw = <<>> /\ alt = <<>>
    /\ key = NoKey /\ altKey = NoKey /\ rekey = NoKey
    /\ varied = <<>> /\ nfrag = 0 /\ npc = "off"

CsvIdle ==
    /\ csvHeader = <<>> /\ csvRows = <<>> /\ csvTarget = <<>>
    /\ csvOut = Unset /\ fmtOut = Unset /\ cpc = "off"

MatchIdle ==
    /\ txtDir = <<>> /\ mdDir = <<>> /\ clubMapping = Unset /\ mpc = "off"

SpliceIdle ==
    /\ docText = <<>> /\ docParts = 0 /\ newContent = <<>>
    /\ priced = Unset /\ repriced = Unset /\ feeOut = Unset /\ feeAgain = Unset
    /\ spc = "off"

SplitIdle ==
    /\ splitText = <<>> /\ splitLines = 0
    /\ clubSections = Unset /\ clubFiles = Unset /\ xpc = "off"

RunIdle ==
    /\ csvExists = FALSE /\ txtText = <<>> /\ item = 0
    /\ csvResult = Unset /\ pricingContent = <<>>
    /\ successCount = 0 /\ failedCount = 0 /\ totalFilesProcessed = 0
    /\ mdText = <<>> /\ updatedDir = <<>> /\ mdIdx = 0 /\ docLog = <<>>
    /\ sweep = Unset
    /\ rpc = "off"

-----------------------------------------------------------------------------
(* Characters and strings.                                                 *)

UpperChars == <<"A","B","C","D","E","F","G","H","I","J","K","L","M",
                "N","O","P","Q","R","S","T","U","V","W","X","Y","Z">>
LowerChars == <<"a","b","c","d","e","f","g","h","i","j","k","l","m",
                "n","o","p","q","r","s","t","u","v","w","x","y","z">>
Digits == {"0","1","2","3","4","5","6","7","8","9"}
\* The characters Python's \s and str.strip() treat as white space.
Whitespace == {" ", "\t", "\n", "\r"}

IsUpper(c) == \E i \in 1..26 : UpperChars[i] = c
IsLower(c) == \E i \in 1..26 : LowerChars[i] = c

\* str.lower() on one character.
LowerChar(c) ==
    IF IsUpper(c) THEN LowerChars[CHOOSE i \in 1..26 : UpperChars[i] = c] ELSE c

\* str.upper() on one character.
UpperChar(c) ==
    IF IsLower(c) THEN UpperChars[CHOOSE i \in 1..26 : LowerChars[i] = c] ELSE c

\* str.lower(); the result is a finished sequence, not a function still to be
\* worked out at every index.
Lower(s) == <<>> \o [i \in 1..Len(s) |-> LowerChar(s[i])]

\* str.replace(a, b) for single characters a and b.
ReplaceChar(s, a, b) == [i \in 1..Len(s) |-> IF s[i] = a THEN b ELSE s[i]]

\* s[i-1:] in Python terms: the suffix of s that starts at (1-based) index i.
From(s, i) == SubSeq(s, i, Len(s))

\* p occurs in s at (1-based) index i.
IsAt(s, p, i) ==
    /\ i >= 1
    /\ i + Len(p) - 1 <= Len(s)
    /\ \A k \in 1..Len(p) : s[i + k - 1] = p[k]

\* str.startswith
StartsWith(s, p) == IsAt(s, p, 1)

\* First index >= i of s whose character is not in set cs; Len(s)+1 if none.
RECURSIVE SkipSet(_, _, _)
SkipSet(s, cs, i) ==
    IF i > Len(s) \/ s[i] \notin cs THEN i ELSE SkipSet(s, cs, i + 1)

\* Last index <= i of s whose character is not in set cs; 0 if none.
RECURSIVE SkipSetBack(_, _, _)
SkipSetBack(s, cs, i) ==
    IF i < 1 \/ s[i] \notin cs THEN i ELSE SkipSetBack(s, cs, i - 1)

\* str.strip()
Strip(s) ==
    LET a == SkipSet(s, Whitespace, 1)
        b == SkipSetBack(s, Whitespace, Len(s))
    IN  IF a > b THEN <<>> ELSE SubSeq(s, a, b)

-----------------------------------------------------------------------------
(* normalize_club_name                                                     *)

S_cff == <<"c","f","f",":">>
S_inshape == <<"i","n","-","s","h","a","p","e",":">>
S_california == <<"c","a","l","i","f","o","r","n","i","a">>
S_ca == <<"c","a">>

\* re.sub(r'^(CFF|In-Shape):\s*', '', name, flags=re.IGNORECASE)
StripOrgPrefix(name) ==
    LET l == Lower(name)
        n == IF StartsWith(l, S_cff) THEN Len(S_cff)
             ELSE IF StartsWith(l, S_inshape) THEN Len(S_inshape)
             ELSE 0
    IN  IF n = 0 THEN name ELSE From(name, SkipSet(name, Whitespace, n + 1))

\* End (exclusive index) of a match of \s+<word>\s+\d+ that begins at index i
\* of s, or 0 when there is none.  Each of the three runs is greedy and is
\* followed by a character outside its class, so the match is unique.
StateZipEnd(s, word, i) ==
    LET w == SkipSet(s, Whitespace, i)
        g == w + Len(word)
        d == SkipSet(s, Whitespace, g)
        e == SkipSet(s, Digits, d)
    IN  IF w > i /\ IsAt(s, word, w) /\ d > g /\ e > d THEN e ELSE 0

\* re.sub(r'\s+<word>\s+\d+', '', s): the leftmost matches, not overlapping,
\* are dropped; the scan resumes after each match in the original string.
RECURSIVE RemoveStateZip(_, _, _)
RemoveStateZip(s, word, i) ==
    IF i > Len(s) THEN <<>>
    ELSE LET e == StateZipEnd(s, word, i)
         IN  IF e # 0 THEN RemoveStateZip(s, word, e)
             ELSE <<s[i]>> \o RemoveStateZip(s, word, i + 1)

\* re.sub(r'\s+', ' ', s): every run of white space becomes one space.
RECURSIVE CollapseSpaces(_, _)
CollapseSpaces(s, i) ==
    IF i > Len(s) THEN <<>>
    ELSE IF s[i] \in Whitespace
         THEN <<" ">> \o CollapseSpaces(s, SkipSet(s, Whitespace, i))
         ELSE <<s[i]>> \o CollapseSpaces(s, i + 1)

normalize_club_name(name) ==
    LET a == StripOrgPrefix(name)
        b == ReplaceChar(ReplaceChar(Lower(a), "_", " "), "-", " ")
        c == RemoveStateZip(b, S_california, 1)
        d == RemoveStateZip(c, S_ca, 1)
    IN  Strip(CollapseSpaces(d, 1))

-----------------------------------------------------------------------------
(* read_pricing_content_from_csv                                           *)
(*                                                                         *)
(* A CSV file is its header (a sequence of column names) and its rows (a   *)
(* sequence of rows, each a sequence of cells), as csv.reader yields them. *)
(* Python indexes from 0 and TLA+ from 1: Python's row[k] is row[k + 1].   *)

\* p occurs somewhere in s (Python's `p in s`).
Contains(s, p) == \E i \in 1..(Len(s) - Len(p) + 1) : IsAt(s, p, i)

\* First index >= i at which p occurs in s, or 0 (str.find, 1-based).
Find(s, p, i) ==
    LET hits == {j \in i..(Len(s) - Len(p) + 1) : IsAt(s, p, j)}
    IN  IF hits = {} THEN 0 ELSE CHOOSE j \in hits : \A k \in hits : j <= k

\* str.replace(p, r): every occurrence of p, left to right, not overlapping.
RECURSIVE ReplaceAll(_, _, _, _)
ReplaceAll(s, p, r, i) ==
    LET j == IF Len(p) = 0 THEN 0 ELSE Find(s, p, i)
    IN  IF j = 0 THEN SubSeq(s, i, Len(s))
        ELSE SubSeq(s, i, j - 1) \o r \o ReplaceAll(s, p, r, j + Len(p))

\* s.split(c) for a single character c.
RECURSIVE Split(_, _)
Split(s, c) ==
    LET hits == {i \in 1..Len(s) : s[i] = c}
    IN  IF hits = {} THEN <<s>>
        ELSE LET i == CHOOSE j \in hits : \A k \in hits : j <= k
             IN  <<SubSeq(s, 1, i - 1)>> \o Split(From(s, i + 1), c)

\* sep.join(lines)
RECURSIVE Join(_, _)
Join(lines, sep) ==
    IF Len(lines) = 0 THEN <<>>
    ELSE IF Len(lines) = 1 THEN lines[1]
    ELSE lines[1] \o sep \o Join(Tail(lines), sep)

\* fee_types, in the order the lines are written
fee_types ==
    << <<"M","e","m","b","e","r"," ","T","y","p","e">>,
       <<"E","n","r","o","l","l","m","e","n","t"," ","1","2"," ","M">>,
       <<"M","a","i","n"," ","D","u","e","s"," ","1","2","M">>,
       <<"E","n","r","o","l","l","m","e","n","t"," ","M","T","M">>,
       <<"M","a","i","n"," ","D","u","e","s"," ","M","T","M">>,
       <<"A","d","d"," ","A","d","u","l","t">>,
       <<"A","d","d"," ","Y","o","u","t","h">>,
       <<"A","d","d"," ","C","h","i","l","d">>,
       <<"P","r","e","f","e","r","r","e","d">>,
       <<"E","l","e","v","a","t","e">>,
       <<"N","o","n","-","E","F","T"," ","F","e","e">>,
       <<"C","r","e","d","i","t"," ","C","a","r","d"," ",
         "S","e","r","v","i","c","e"," ","F","e","e">> >>

S_LifestyleLocalNetwork == <<"L","i","f","e","s","t","y","l","e"," ","L",
    "o","c","a","l"," ","N","e","t","w","o","r","k">>
S_LifestyleNetworkPlus == <<"L","i","f","e","s","t","y","l","e"," ","N","e",
    "t","w","o","r","k"," ","P","l","u","s">>
S_NotAvailable == <<"N","o","t"," ","a","v","a","i","l","a","b","l","e">>
S_LocalNetworkLabel == <<"L","o","c","a","l"," ","N","e","t","w","o","r",
    "k">>
S_FitnessPlusLabel == <<"F","i","t","n","e","s","s"," ","P","l","u","s"," ",
    "L","o","c","a","l"," ","N","e","t","w","o","r","k">>
S_LifestylePlusLabel == <<"L","i","f","e","s","t","y","l","e"," ","N","e",
    "t","w","o","r","k"," ","P","l","u","s">>
S_OneClubLabel == <<"O","n","e"," ","C","l","u","b">>
S_ColonSp == <<":"," ">>
S_Bar == <<" ","|"," ">>
S_NFC == <<" ","-"," ","N","F","C">>
S_Dash == <<"-">>
S_DollarDash == <<"$","-">>
S_Dollar == <<"$">>
S_ClubName == <<"C","l","u","b"," ","N","a","m","e">>
S_NL == <<"\n">>

\* Column indices of read_pricing_content_from_csv (0-based, as in Python).
add_on_fees_col == 6
local_network_col == 15
fitness_plus_col == 16
lifestyle_col == 17

\* row[k] for a 0-based k.
Cell(row, k) == row[k + 1]

\* row[k].strip() if len(row) > k else ""
CellOrEmpty(row, k) == IF Len(row) > k THEN Strip(Cell(row, k)) ELSE <<>>

\* The 0-based index of the first header column whose name contains
\* "Lifestyle Local Network" or "Lifestyle Network Plus"; -1 for Python's None.
LifestyleColIdx(header) ==
    LET hits == {k \in 0..(Len(header) - 1) :
                    \/ Contains(Cell(header, k), S_LifestyleLocalNetwork)
                    \/ Contains(Cell(header, k), S_LifestyleNetworkPlus)}
    IN  IF hits = {} THEN -1 ELSE CHOOSE k \in hits : \A j \in hits : k <= j

\* additional_columns: (idx, stripped name) of every column after the anchor
\* whose stripped name is not empty.
AdditionalColumns(header, anchor) ==
    LET all == [n \in 1..(Len(header) - anchor - 1) |->
                   [idx |-> anchor + n, name |-> Strip(Cell(header, anchor + n))]]
    IN  SelectSeq(all, LAMBDA c : c.name # <<>>)

\* club_rows: the rows whose club-name cell normalizes to the target's key.
ClubRows(rows, club_name) ==
    LET normalized_club_name == normalize_club_name(club_name)
    IN  SelectSeq(rows, LAMBDA row :
            /\ Len(row) > 1
            /\ normalize_club_name(Strip(Cell(row, 1))) = normalized_club_name)

\* Index in club_rows of the row found for fee_type (the loop breaks at the
\* first match), or 0 when the loop leaves fee_row = None.
FeeRowIndex(club_rows, fee_type) ==
    LET hits == {n \in 1..Len(club_rows) :
                    /\ Len(club_rows[n]) > add_on_fees_col
                    /\ Strip(Cell(club_rows[n], add_on_fees_col)) = fee_type}
    IN  IF hits = {} THEN 0 ELSE CHOOSE n \in hits : \A m \in hits : n <= m

\* {value or 'Not available'}
OrNotAvailable(value) == IF value = <<>> THEN S_NotAvailable ELSE value

\* additional_parts of one fee row: (cleaned column name, value) of the
\* additional columns whose cell is present and not "", "-" or "$-".
AdditionalParts(fee_row, additional_columns) ==
    LET kept == SelectSeq(additional_columns, LAMBDA c :
                    /\ Len(fee_row) > c.idx
                    /\ Strip(Cell(fee_row, c.idx)) \notin {<<>>, S_Dash, S_DollarDash})
    IN  [n \in 1..Len(kept) |->
            [name  |-> Strip(ReplaceAll(kept[n].name, S_NFC, <<>>, 1)),
             value |-> Strip(Cell(fee_row, kept[n].idx))]]

\* A slip the column indices could have: the tiers are read where
\* process_csv_file reads them, in the cells 12 to 14.
CsvFeeRowFormatterColumns(fee_type, fee_row, additional_columns) ==
    [fee    |-> fee_type,
     vals   |-> << OrNotAvailable(CellOrEmpty(fee_row, 12)),
                   OrNotAvailable(CellOrEmpty(fee_row, 13)),
                   OrNotAvailable(CellOrEmpty(fee_row, 14)) >>,
     extras |-> AdditionalParts(fee_row, additional_columns)]

\* The fee row built for one fee type: its three tier values as displayed and
\* its additional parts.
CsvFeeRow(fee_type, fee_row, additional_columns) ==
    [fee    |-> fee_type,
     vals   |-> << OrNotAvailable(CellOrEmpty(fee_row, local_network_col)),
                   OrNotAvailable(CellOrEmpty(fee_row, fitness_plus_col)),
                   OrNotAvailable(CellOrEmpty(fee_row, lifestyle_col)) >>,
     extras |-> AdditionalParts(fee_row, additional_columns)]

\* pricing_line of one fee row.
CsvPricingLine(fr) ==
    LET parts == [n \in 1..Len(fr.extras) |->
                     fr.extras[n].name \o S_ColonSp \o fr.extras[n].value]
    IN  fr.fee \o S_ColonSp \o S_LocalNetworkLabel \o S_ColonSp \o fr.vals[1]
            \o S_Bar \o S_FitnessPlusLabel \o S_ColonSp \o fr.vals[2]
            \o S_Bar \o S_LifestylePlusLabel \o S_ColonSp \o fr.vals[3]
            \o (IF Len(parts) > 0 THEN S_Bar \o Join(parts, S_Bar) ELSE <<>>)

\* A slip the line loop could have: it walks the rows, not fee_types, and
\* writes a line for every row whose fee type is one of fee_types.
RECURSIVE CsvFeeRowsInRowOrder(_, _, _)
CsvFeeRowsInRowOrder(club_rows, additional_columns, n) ==
    IF n > Len(club_rows) THEN <<>>
    ELSE (IF /\ Len(club_rows[n]) > add_on_fees_col
             /\ \E k \in 1..Len(fee_types) :
                    Strip(Cell(club_rows[n], add_on_fees_col)) = fee_types[k]
          THEN <<CsvFeeRow(Strip(Cell(club_rows[n], add_on_fees_col)),
                           club_rows[n], additional_columns)>>
          ELSE <<>>)
         \o CsvFeeRowsInRowOrder(club_rows, additional_columns, n + 1)

\* The fee rows in the order of fee_types, one for each fee type that has a
\* row among club_rows.
RECURSIVE CsvFeeRows(_, _, _)
CsvFeeRows(club_rows, additional_columns, n) ==
    IF n > Len(fee_types) THEN <<>>
    ELSE LET k == FeeRowIndex(club_rows, fee_types[n])
         IN  (IF k = 0 THEN <<>>
              ELSE <<CsvFeeRow(fee_types[n], club_rows[k], additional_columns)>>)
             \o CsvFeeRows(club_rows, additional_columns, n + 1)

\* A slip the early returns could have: the club is looked up before the
\* anchor column.
CsvOutcomeClubFirst(lifestyle_col_idx, club_rows) ==
    IF Len(club_rows) = 0 THEN "ClubNotFound"
    ELSE IF lifestyle_col_idx = -1 THEN "ColumnNotFound"
    ELSE "ok"

\* The two early returns of read_pricing_content_from_csv, in their order:
\* the anchor column is looked up first, the club's rows second.
CsvOutcome(lifestyle_col_idx, club_rows) ==
    IF lifestyle_col_idx = -1 THEN "ColumnNotFound"
    ELSE IF Len(club_rows) = 0 THEN "ClubNotFound"
    ELSE "ok"

\* What read_pricing_content_from_csv returns.  ret is "None" or "tuple"; the
\* two None returns differ in the message printed, kept in why.
read_pricing_content_from_csv(header, rows, club_name) ==
    LET lifestyle_col_idx == LifestyleColIdx(header)
        additional_columns == AdditionalColumns(header, lifestyle_col_idx)
        club_rows == ClubRows(rows, club_name)
        outcome == CsvOutcome(lifestyle_col_idx, club_rows)
        feeRows == CsvFeeRows(club_rows, additional_columns, 1)
        pricing_lines == [n \in 1..Len(feeRows) |-> CsvPricingLine(feeRows[n])]
    IN  IF outcome # "ok"
        THEN [ret |-> "None", why |-> outcome]
        ELSE [ret |-> "tuple", why |-> "ok",
              feeRows |-> feeRows,
              pricing_content |-> Join(pricing_lines, S_NL),
              additional_col_names |->
                  [n \in 1..Len(additional_columns) |-> additional_columns[n].name]]

-----------------------------------------------------------------------------
(* InShapePricingFormatter.process_csv_file: the pricing lines of a club   *)

\* Rows shorter than this are skipped by process_csv_file.
min_columns == 15
\* Columns of the three tiers in process_csv_file (0-based).
one_club_col == 12
local_col == 13
lifestyle_plus_col == 14

\* InShapePricingFormatter.clean_price
clean_price(value) ==
    IF value = <<>> \/ Strip(value) = <<>> \/ Strip(value) = S_Dash
    THEN S_NotAvailable
    ELSE IF Strip(value) = S_DollarDash THEN S_NotAvailable
    ELSE IF Strip(value) = S_Dollar THEN S_NotAvailable
    ELSE Strip(value)

\* The rows process_csv_file keeps while reading the file.
FormatterRows(rows) ==
    SelectSeq(rows, LAMBDA row :
        /\ ~(Len(row) < min_columns)
        /\ Strip(Cell(row, 1)) # <<>>
        /\ Strip(Cell(row, 1)) # S_ClubName)

\* The keys of club_data_by_name.
FormatterClubs(rows) ==
    {Strip(Cell(FormatterRows(rows)[n], 1)) : n \in 1..Len(FormatterRows(rows))}

\* club_data_by_name[club_name]
FormatterClubRows(rows, club_name) ==
    SelectSeq(FormatterRows(rows), LAMBDA row : Strip(Cell(row, 1)) = club_name)

\* The three values process_csv_file stores for one row.
FormatterValues(row) ==
    IF Strip(Cell(row, add_on_fees_col)) = fee_types[1]
    THEN [k \in 1..3 |->
            IF Len(row) > one_club_col + k - 1
               /\ Strip(Cell(row, one_club_col + k - 1)) # <<>>
            THEN Strip(Cell(row, one_club_col + k - 1))
            ELSE S_NotAvailable]
    ELSE [k \in 1..3 |->
            IF Len(row) > one_club_col + k - 1
            THEN clean_price(Cell(row, one_club_col + k - 1))
            ELSE S_NotAvailable]

\* fee_data after the first n rows of the club: each row stores its values
\* under its fee type, replacing what an earlier row stored there.
RECURSIVE FormatterFeeData(_, _)
FormatterFeeData(club_rows, n) ==
    IF n = 0 THEN [f \in {} |-> <<>>]
    ELSE (Strip(Cell(club_rows[n], add_on_fees_col)) :> FormatterValues(club_rows[n]))
             @@ FormatterFeeData(club_rows, n - 1)

\* The fee rows written for a club: every fee type of fee_types that is a key
\* of fee_data, in the order of fee_types.
FormatterFeeRows(rows, club_name) ==
    LET club_rows == FormatterClubRows(rows, club_name)
        fee_data == FormatterFeeData(club_rows, Len(club_rows))
        present == SelectSeq(fee_types, LAMBDA f : f \in DOMAIN fee_data)
    IN  [n \in 1..Len(present) |-> [fee |-> present[n], vals |-> fee_data[present[n]]]]

\* One line of "Pricing Details:".
FormatterPricingLine(fr) ==
    fr.fee \o S_ColonSp \o S_OneClubLabel \o S_ColonSp \o fr.vals[1]
        \o S_Bar \o S_LocalNetworkLabel \o S_ColonSp \o fr.vals[2]
        \o S_Bar \o S_LifestylePlusLabel \o S_ColonSp \o fr.vals[3]

\* The pricing part of what process_csv_file writes: for each club its fee
\* rows and the lines they are written as.
process_csv_file(rows) ==
    [c \in FormatterClubs(rows) |->
        LET feeRows == FormatterFeeRows(rows, c)
        IN  [feeRows |-> feeRows,
             lines |-> [n \in 1..Len(feeRows) |-> FormatterPricingLine(feeRows[n])]]]

-----------------------------------------------------------------------------
(* extract_club_name_from_txt, extract_club_name_from_md, build_club_mapping *)
(*                                                                         *)
(* A file is known by its name (the last component of its path).           *)

S_CFF__ == <<"C","F","F","_","_">>
S_InShape__ == <<"I","n","-","S","h","a","p","e","_","_">>
S_www == <<"w","w","w",".","i","n","s","h","a","p","e",".","c","o","m","_",
    "g","y","m","s","_">>
S__clean == <<"_","c","l","e","a","n">>
S_california_tag == <<"-","c","a","l","i","f","o","r","n","i","a","-">>
S_ca_tag == <<"-","c","a","-">>

\* Path.stem: the name without its last suffix.  A dot that begins or ends
\* the name starts no suffix.
Stem(name) ==
    LET dots == {i \in 1..Len(name) : name[i] = "."}
        last == IF dots = {} THEN 0 ELSE CHOOSE i \in dots : \A j \in dots : j <= i
    IN  IF last > 1 /\ last < Len(name) THEN SubSeq(name, 1, last - 1) ELSE name

\* str.endswith
EndsWith(s, p) == IsAt(s, p, Len(s) - Len(p) + 1)

\* re.sub(tag + r'\d+', '', s) for a literal tag: every occurrence of the tag
\* followed by at least one digit is dropped, with all the digits after it.
RECURSIVE RemoveTagDigits(_, _, _)
RemoveTagDigits(s, tag, i) ==
    IF i > Len(s) THEN <<>>
    ELSE LET d == i + Len(tag)
             e == SkipSet(s, Digits, d)
         IN  IF IsAt(s, tag, i) /\ e > d THEN RemoveTagDigits(s, tag, e)
             ELSE <<s[i]>> \o RemoveTagDigits(s, tag, i + 1)

extract_club_name_from_txt(filename) ==
    LET stem == Stem(filename)
        club_name == IF StartsWith(stem, S_CFF__) THEN From(stem, Len(S_CFF__) + 1)
                     ELSE IF StartsWith(stem, S_InShape__)
                          THEN From(stem, Len(S_InShape__) + 1)
                     ELSE stem
    IN  ReplaceChar(club_name, "_", " ")

extract_club_name_from_md(filename) ==
    LET stem == Stem(filename)
        a == IF StartsWith(stem, S_www) THEN From(stem, Len(S_www) + 1) ELSE stem
        b == IF EndsWith(a, S__clean) THEN SubSeq(a, 1, Len(a) - Len(S__clean)) ELSE a
        c == RemoveTagDigits(b, S_california_tag, 1)
        d == RemoveTagDigits(c, S_ca_tag, 1)
    IN  ReplaceChar(ReplaceChar(d, "-", " "), "_", " ")

\* special_mappings: identities whose document is named differently.
special_mappings ==

       (<<"s","p","o","r","t","s"," ","c","o","m","p","l","e","x">>
        :> <<"r","o","c","k","l","i","n"," ","e","a","s","t">>)
    @@ (<<"e","a","s","t"," ","a","r","d","e","n">>
        :> <<"c","a","r","m","i","c","h","a","e","l"," ","a","r","d","e","n">>)
    @@ (<<"m","a","d","i","s","o","n">>
        :> <<"m","a","d","i","s","o","n"," ","i"," ","8","0">>)
    @@ (<<"s","u","n","r","i","s","e">>
        :> <<"s","u","n","r","i","s","e"," ","h","w","y"," ","5","0">>)
    @@ (<<"m","o","d","e","s","t","o"," ","m","c","h","e","n","r","y">>
        :> <<"m","o","d","e","s","t","o"," ","m","c","h","e","n","r","y"," ","n","o","r","t","h">>)
    @@ (<<"s","u","i","s","u","n">>
        :> <<"s","u","i","s","u","n"," ","c","i","t","y">>)
    @@ (<<"t","u","r","l","o","c","k">>
        :> <<"t","u","r","l","o","c","k"," ","m","o","n","t","e"," ","v","i","s","t","a">>)
    @@ (<<"v","a","l","l","e","j","o"," ","l","i","n","c","o","l","n"," ","r","d">>
        :> <<"v","a","l","l","e","j","o"," ","l","i","n","c","o","l","n"," ","r","o","a","d">>)
    @@ (<<"v","i","c","t","o","r","v","i","l","l","e">>
        :> <<"v","i","c","t","o","r","v","i","l","l","e"," ","n","o","r","t","h">>)
    @@ (<<"v","i","s","a","l","i","a"," ","m","o","o","n","e","y">>
        :> <<"v","i","s","a","l","i","a"," ","m","o","o","n","e","y"," ","n","o","r","t","h">>)

\* multi_mappings: identities whose text goes to several documents.
multi_mappings ==
    <<"m","i","d","t","o","w","n">> :> << <<"m","i","d","t","o","w","n">>,
             <<"d","o","w","n","t","o","w","n">> >>

\* md_name_map after the first n files of md_files: each file is stored under
\* its normalized name, replacing a file stored there before.
RECURSIVE MdNameMap(_, _)
MdNameMap(md_files, n) ==
    IF n = 0 THEN [k \in {} |-> <<>>]
    ELSE (normalize_club_name(extract_club_name_from_md(md_files[n])) :> md_files[n])
             @@ MdNameMap(md_files, n - 1)

\* Those of the target names that are keys of md_name_map, in their order,
\* each replaced by its file.
FoundTargets(targets, md_name_map) ==
    LET found == SelectSeq(targets, LAMBDA name : name \in DOMAIN md_name_map)
    IN  [n \in 1..Len(found) |-> md_name_map[found[n]]]

\* A slip the branches could have: the alias table is consulted before the
\* direct match.
ResolveAliasFirst(normalized, md_name_map) ==
    IF normalized \in DOMAIN multi_mappings
    THEN FoundTargets(multi_mappings[normalized], md_name_map)
    ELSE IF normalized \in DOMAIN special_mappings
    THEN IF special_mappings[normalized] \in DOMAIN md_name_map
         THEN << md_name_map[special_mappings[normalized]] >>
         ELSE <<>>
    ELSE IF normalized \in DOMAIN md_name_map
    THEN << md_name_map[normalized] >>
    ELSE <<>>

\* A slip the multi-mapping branch could have: a missing target drops the
\* whole entry.
ResolveAllTargets(normalized, md_name_map) ==
    IF normalized \in DOMAIN multi_mappings
    THEN IF \A n \in 1..Len(multi_mappings[normalized]) :
                multi_mappings[normalized][n] \in DOMAIN md_name_map
         THEN FoundTargets(multi_mappings[normalized], md_name_map)
         ELSE <<>>
    ELSE IF normalized \in DOMAIN md_name_map
    THEN << md_name_map[normalized] >>
    ELSE IF normalized \in DOMAIN special_mappings
    THEN IF special_mappings[normalized] \in DOMAIN md_name_map
         THEN << md_name_map[special_mappings[normalized]] >>
         ELSE <<>>
    ELSE <<>>

\* The branches of the loop over txt_files: the documents one text file with
\* the given identity is mapped to; the empty list when it gets no entry.
Resolve(normalized, md_name_map) ==
    IF normalized \in DOMAIN multi_mappings
    THEN FoundTargets(multi_mappings[normalized], md_name_map)
    ELSE IF normalized \in DOMAIN md_name_map
    THEN << md_name_map[normalized] >>
    ELSE IF normalized \in DOMAIN special_mappings
    THEN IF special_mappings[normalized] \in DOMAIN md_name_map
         THEN << md_name_map[special_mappings[normalized]] >>
         ELSE <<>>
    ELSE <<>>

\* mapping after the first n files of txt_files, as the list of its items in
\* insertion order: (text file, list of documents).
RECURSIVE MappingItems(_, _, _)
MappingItems(txt_files, md_name_map, n) ==
    IF n = 0 THEN <<>>
    ELSE LET txt_file == txt_files[n]
             normalized == normalize_club_name(extract_club_name_from_txt(txt_file))
             md_file_list == Resolve(normalized, md_name_map)
         IN  MappingItems(txt_files, md_name_map, n - 1)
                 \o (IF Len(md_file_list) > 0
                     THEN << [txt |-> txt_file, mds |-> md_file_list] >>
                     ELSE <<>>)

\* Path.glob('*' + suffix) on a directory listing: the files whose name ends
\* with the suffix, in the order of the listing.
Glob(dir, suffix) == SelectSeq(dir, LAMBDA f : EndsWith(f, suffix))

\* build_club_mapping on the listings of the two directories, each in the
\* order the file system gives.
build_club_mapping(txt_dir, md_dir) ==
    LET txt_files == Glob(txt_dir, <<".","t","x","t">>)
        md_files == Glob(md_dir, <<"_","c","l","e","a","n",".","m","d">>)
    IN  MappingItems(txt_files, MdNameMap(md_files, Len(md_files)), Len(txt_files))

-----------------------------------------------------------------------------
(* read_pricing_content_from_txt and run                                   *)
(*                                                                         *)
(* An Optional[str] is a sequence of at most one string: None is <<>>.     *)

S_MemberTypeColon == <<"M","e","m","b","e","r"," ","T","y","p","e",":">>

\* Index of the newline that ends the line before the first blank line (a
\* line of spaces and tabs only) at or after index i, or Len(content) + 1
\* when no blank line follows.
NextBlankLine(content, i) ==
    LET blanks == {e \in i..Len(content) :
                      /\ content[e] = "\n"
                      /\ LET f == SkipSet(content, {" ", "\t"}, e + 1)
                         IN  f <= Len(content) /\ content[f] = "\n"}
    IN  IF blanks = {} THEN Len(content) + 1
        ELSE CHOOSE e \in blanks : \A f \in blanks : e <= f

\* A reading of the pattern in which $ ends a line: the block from the first
\* "Member Type:" to the next blank line or the end of the text, stripped;
\* None without "Member Type:".
BlockToBlankLine(content) ==
    LET start == Find(content, S_MemberTypeColon, 1)
    IN  IF start = 0 THEN <<>>
        ELSE << Strip(SubSeq(content, start, NextBlankLine(content, start) - 1)) >>

\* re.search(r'Member Type:.*?(?=\n\s*$|\Z)', content, re.DOTALL), stripped:
\* from the first "Member Type:" to the first newline after which the text
\* holds only white space, or to the end of the text.  None when the text
\* has no "Member Type:".
read_pricing_content_from_txt(content) ==
    LET start == Find(content, S_MemberTypeColon, 1)
        ends == {e \in (start + Len(S_MemberTypeColon))..(Len(content) + 1) :
                    \/ e = Len(content) + 1
                    \/ /\ content[e] = "\n"
                       /\ SkipSet(content, Whitespace, e) > Len(content)}
        end == CHOOSE e \in ends : \A f \in ends : e <= f
    IN  IF start = 0 THEN <<>>
        ELSE << Strip(SubSeq(content, start, end - 1)) >>

\* Python's `not x` for an Optional[str]: None and "" are false.
IsFalsy(opt) == opt = <<>> \/ opt[1] = <<>>

\* run, lines 567-582: the pricing content for one text file.  The CSV is
\* tried first when it exists; the text file is read when that left
\* pricing_content None or empty.
AcquirePricingContent(use_csv, csv_result, content) ==
    LET from_csv == IF use_csv /\ csv_result.ret = "tuple"
                    THEN << csv_result.pricing_content >>
                    ELSE <<>>
    IN  IF IsFalsy(from_csv) THEN read_pricing_content_from_txt(content)
        ELSE from_csv

-----------------------------------------------------------------------------
(* replace_pricing_section_in_md                                           *)
(*                                                                         *)
(* A splice is given the text of the file and returns what it returns      *)
(* (ok) and the text of the file afterwards.                               *)

S_SilverSneakers == <<"S","I","L","V","E","R"," ","S","N","E","A","K","E",
    "R","S",":">>
S_InsuranceAvailability == <<"I","n","s","u","r","a","n","c","e"," ","A",
    "v","a","i","l","a","b","i","l","i","t","y",":">>
S_available == <<"a","v","a","i","l","a","b","l","e">>
S_PeerFit_sp == <<"\n","P","e","e","r"," ","F","i","t",":">>
S_PeerFit == <<"\n","P","e","e","r","F","i","t",":">>
S_GetStarted == <<"\n","[","G","e","t"," ","S","t","a","r","t","e","d","]">>

\* First index >= i at which one of the two strings occurs in s, with the
\* index after the occurrence; at = 0 when neither occurs.
FindEither(s, p, q, i) ==
    LET a == Find(s, p, i)
        b == Find(s, q, i)
    IN  IF a = 0 /\ b = 0 THEN [at |-> 0, end |-> 0]
        ELSE IF b = 0 \/ (a # 0 /\ a < b) THEN [at |-> a, end |-> a + Len(p)]
        ELSE [at |-> b, end |-> b + Len(q)]

\* The lookahead (?=\n\n|\n\[Get Started\]|\Z) at index t.
PricingEndsAt(s, t) ==
    \/ t = Len(s) + 1
    \/ IsAt(s, <<"\n", "\n">>, t)
    \/ IsAt(s, S_GetStarted, t)

\* End (exclusive) of the match of
\*   .*?(?:\n(?:Peer Fit|PeerFit):.*?(?:available|not available).*?)?(?=...)
\* from index t: the lazy .*? grows one character at a time; at each length
\* the optional Peer Fit group is tried first, then the lookahead alone.
PricingTail(s, t) ==
    LET label(u) == IF IsAt(s, S_PeerFit_sp, u) THEN u + Len(S_PeerFit_sp)
                    ELSE IF IsAt(s, S_PeerFit, u) THEN u + Len(S_PeerFit)
                    ELSE 0
        avail(u) == IF label(u) = 0 THEN 0 ELSE Find(s, S_available, label(u))
        stops == {u \in t..(Len(s) + 1) : avail(u) # 0 \/ PricingEndsAt(s, u)}
        stop == CHOOSE u \in stops : \A v \in stops : u <= v
        ends == {u \in (avail(stop) + Len(S_available))..(Len(s) + 1) :
                    PricingEndsAt(s, u)}
    IN  IF avail(stop) # 0 THEN CHOOSE u \in ends : \A v \in ends : u <= v
        ELSE stop

\* A search that asks for "Member Type:" only, and not for the availability
\* label and the word "available" after it.
PricingMatchAnyMember(content) ==
    LET start == Find(content, S_MemberTypeColon, 1)
    IN  IF start = 0 THEN [at |-> 0, end |-> 0]
        ELSE [at |-> start,
              end |-> PricingTail(content, start + Len(S_MemberTypeColon))]

\* re.search(pattern, content, re.DOTALL) of line 201: start and end
\* (exclusive) of the match; at = 0 when there is none.  Each lazy .*? stops
\* at the first place the next literal occurs; "not available" ends where
\* the "available" inside it ends.
PricingMatch(content) ==
    LET start == Find(content, S_MemberTypeColon, 1)
        label == IF start = 0 THEN [at |-> 0, end |-> 0]
                 ELSE FindEither(content, S_SilverSneakers, S_InsuranceAvailability,
                                 start + Len(S_MemberTypeColon))
        avail == IF label.at = 0 THEN 0 ELSE Find(content, S_available, label.end)
    IN  IF avail = 0 THEN [at |-> 0, end |-> 0]
        ELSE [at |-> start, end |-> PricingTail(content, avail + Len(S_available))]

\* replace_pricing_section_in_md on a file with the given text: str.replace
\* puts new_pricing_content in place of every occurrence of the matched text.
replace_pricing_section_in_md(content, new_pricing_content) ==
    LET match == PricingMatch(content)
        group0 == SubSeq(content, match.at, match.end - 1)
    IN  IF match.at = 0 THEN [ok |-> FALSE, text |-> content]
        ELSE [ok |-> TRUE,
              text |-> ReplaceAll(content, group0, new_pricing_content, 1)]

-----------------------------------------------------------------------------
(* replace_enhancement_fee_text                                            *)
(*                                                                         *)
(* Positions are Python's: 0-based, -1 for "not found", and s[a:b] is      *)
(* Slice(s, a, b).  Patterns compiled with re.IGNORECASE are matched on    *)
(* the lower-cased text.                                                   *)

new_enhancement_fee_text == <<"*","A","n","n","u","a","l"," ","e","n","h",
    "a","n","c","e","m","e","n","t"," ","f","e","e"," ","o","f"," ","$","4",
    "9",".","9","5"," ","f","o","r"," ","t","h","e"," ","f","i","r","s","t",
    " ","m","e","m","b","e","r"," ","a","n","d"," ","$","8","9",".","9","5",
    " ","f","o","r"," ","a","l","l"," ","m","e","m","b","e","r","s","h","i",
    "p","s"," ","w","i","t","h"," ","t","w","o"," ","o","r"," ","m","o","r",
    "e"," ","p","e","r","s","o","n","s"," ","w","i","l","l"," ","b","e"," ",
    "b","i","l","l","e","d"," ","6","0"," ","d","a","y","s"," ","f","r","o",
    "m"," ","t","h","e"," ","j","o","i","n"," ","d","a","t","e",","," ","t",
    "h","e","n"," ","e","v","e","r","y"," ","1","2"," ","m","o","n","t","h",
    "s"," ","t","h","e","r","e","a","f","t","e","r"," ","f","o","r"," ","t",
    "h","e"," ","d","u","r","a","t","i","o","n"," ","o","f"," ","t","h","e",
    " ","m","e","m","b","e","r","s","h","i","p","."," ","I","f"," ","y","o",
    "u"," ","c","h","o","o","s","e"," ","t","o"," ","u","s","e"," ","a"," ",
    "c","r","e","d","i","t"," ","o","r"," ","d","e","b","i","t"," ","c","a",
    "r","d"," ","f","o","r"," ","y","o","u","r"," ","m","e","t","h","o","d",
    " ","o","f"," ","p","a","y","m","e","n","t",","," ","a","d","d","i","t",
    "i","o","n","a","l"," ","$","4",".","9","9"," ","c","r","e","d","i","t",
    " ","c","a","r","d"," ","f","e","e"," ","a","d","d","e","d"," ","t","o",
    " ","y","o","u","r"," ","d","u","e","s",".","\n","\n","*","A","m","e",
    "n","i","t","i","e","s"," ","a","n","d"," ","p","r","o","g","r","a","m",
    "m","i","n","g"," ","v","a","r","y"," ","b","y"," ","l","o","c","a","t",
    "i","o","n","."," ","M","o","n","t","h","l","y"," ","r","e","t","a","i",
    "l"," ","r","e","b","a","t","e"," ","v","a","l","i","d"," ","o","n"," ",
    "i","n","-","c","l","u","b"," ","p","u","r","c","h","a","s","e","s"," ",
    "o","f"," ","d","r","i","n","k","s",","," ","s","n","a","c","k","s"," ",
    "a","n","d"," ","s","h","a","k","e","s"," ","a","n","d"," ","e","x","c",
    "l","u","d","e","s"," ","d","a","y"," ","p","a","s","s","e","s"," ","a",
    "n","d"," ","d","i","s","c","o","u","n","t","e","d"," ","i","t","e","m",
    "s","."," ","R","e","b","a","t","e"," ","n","o","t"," ","t","o"," ","e",
    "x","c","e","e","d"," ","m","o","n","t","h","l","y"," ","d","u","e","s",
    " ","a","m","o","u","n","t","."," ","R","e","l","a","x"," ","&"," ","R",
    "e","c","o","v","e","r"," ","a","v","a","i","l","a","b","l","e"," ","a",
    "t"," ","s","e","l","e","c","t"," ","c","l","u","b","s","."," ","F","o",
    "r"," ","g","u","e","s","t"," ","p","a","s","s","e","s",","," ","g","u",
    "e","s","t"," ","m","u","s","t"," ","b","e"," ","1","8","+"," ","a","n",
    "d"," ","a","c","c","o","m","p","a","n","y"," ","a"," ","m","e","m","b",
    "e","r","."," ","O","n","e"," ","g","u","e","s","t"," ","p","e","r"," ",
    "v","i","s","i","t","."," ","A","l","l"," ","a","c","c","e","s","s"," ",
    "p","a","s","s"," ","i","s"," ","o","n","e"," ","t","i","m","e"," ","p",
    "e","r"," ","m","o","n","t","h"," ","a","n","d"," ","e","x","p","i","r",
    "e","s"," ","a","t"," ","t","h","e"," ","e","n","d"," ","o","f"," ","t",
    "h","e"," ","m","o","n","t","h",".","\n","\n","*","R","e","s","e","r",
    "v","a","t","i","o","n","s"," ","a","r","e"," ","r","e","q","u","i","r",
    "e","d","."," ","A"," ","$","2"," ","n","o","-","s","h","o","w"," ","f",
    "e","e"," ","w","i","l","l"," ","b","e"," ","a","p","p","l","i","e","d",
    " ","i","f"," ","r","e","s","e","r","v","a","t","i","o","n","s"," ","a",
    "r","e"," ","n","o","t"," ","c","a","n","c","e","l","l","e","d"," ","2",
    " ","h","o","u","r","s"," ","p","r","i","o","r",".">>

S_sig_4995 == <<"$","4","9",".","9","5"," ","f","o","r"," ","t","h","e"," ",
    "f","i","r","s","t"," ","m","e","m","b","e","r">>
\* The second signature with the amount of the old text.
S_sig_8998 == <<"$","8","9",".","9","8"," ","f","o","r"," ","a","l","l"," ",
    "m","e","m","b","e","r","s","h","i","p","s">>
S_sig_8995 == <<"$","8","9",".","9","5"," ","f","o","r"," ","a","l","l"," ",
    "m","e","m","b","e","r","s","h","i","p","s">>
S_annual_enhancement_fee == <<"a","n","n","u","a","l"," ","e","n","h","a",
    "n","c","e","m","e","n","t"," ","f","e","e">>
S_an_annual_applies == <<"a","n"," ","a","n","n","u","a","l"," ","e","n",
    "h","a","n","c","e","m","e","n","t"," ","f","e","e"," ","a","p","p","l",
    "i","e","s">>
S_applies == <<"a","p","p","l","i","e","s">>
S_4999 == <<"$","4","9",".","9","9">>
S_8998 == <<"$","8","9",".","9","8">>
S_299 == <<"$","2",".","9","9">>
S_credit_card == <<"c","r","e","d","i","t"," ","c","a","r","d">>
S_debit_card == <<"d","e","b","i","t"," ","c","a","r","d">>
S_Note == <<"*","*","N","o","t","e",":","*","*">>

\* The words of Other\s+terms\s+and\s+conditions\s+apply, of \[Click\s+here
\* and of \*\*Additional\s+Fee, lower-cased.
W_other_terms ==
    << <<"o","t","h","e","r">>,
       <<"t","e","r","m","s">>,
       <<"a","n","d">>,
       <<"c","o","n","d","i","t","i","o","n","s">>,
       <<"a","p","p","l","y">> >>
W_click_here == << <<"[","c","l","i","c","k">>, <<"h","e","r","e">> >>
W_additional_fee == << <<"*","*","a","d","d","i","t","i","o","n","a","l">>, <<"f","e","e">> >>

Max(a, b) == IF a >= b THEN a ELSE b
Min(a, b) == IF a <= b THEN a ELSE b

\* Python's s[a:b] for a, b >= 0.
Slice(s, a, b) == SubSeq(s, a + 1, Min(b, Len(s)))

\* Python's s.find(p, start) for start >= 0.
PyFind(s, p, start) == Find(s, p, start + 1) - 1

\* Python's s.rfind(p, a, b) for a one-character p and 0 <= a.
PyRFind(s, c, a, b) ==
    LET hits == {k \in a..(Min(b, Len(s)) - 1) : s[k + 1] = c}
    IN  IF hits = {} THEN -1 ELSE CHOOSE k \in hits : \A j \in hits : j <= k

\* The least element of a non-empty set of numbers.
Least(S) == CHOOSE k \in S : \A j \in S : k <= j

\* End (exclusive, 0-based) of a match at position i of the words joined by
\* \s+, or -1.  Each \s+ takes the whole run of white space.
RECURSIVE WordsEnd(_, _, _)
WordsEnd(s, words, i) ==
    IF ~IsAt(s, words[1], i + 1) THEN -1
    ELSE LET e == i + Len(words[1])
         IN  IF Len(words) = 1 THEN e
             ELSE LET f == SkipSet(s, Whitespace, e + 1) - 1
                  IN  IF f = e THEN -1 ELSE WordsEnd(s, Tail(words), f)

\* End of a match at position i of \[Click\s+here[^\]]*?\]\([^\)]+\), or -1:
\* the first "]" after "here" is followed by "(", and the first ")" after
\* that comes after at least one character.
LinkEnd(s, i) ==
    LET e == WordsEnd(s, W_click_here, i)
        b == IF e = -1 THEN -1 ELSE PyFind(s, <<"]">>, e)
        c == IF b = -1 \/ ~IsAt(s, <<"(">>, b + 2) THEN -1
             ELSE PyFind(s, <<")">>, b + 2)
    IN  IF c = -1 \/ c = b + 2 THEN -1 ELSE c + 1

\* End of a match at position i of
\*   Other\s+terms\s+and\s+conditions\s+apply[^.]*?\.?\s*(?:<link>)?
\* or -1.  What follows "apply" is optional throughout, so the lazy [^.]*?
\* stays empty: a full stop, white space and a link count only when they
\* come directly after "apply".
TrailerEnd(s, i) ==
    LET e == WordsEnd(s, W_other_terms, i)
        f == IF IsAt(s, <<".">>, e + 1) THEN e + 1 ELSE e
        g == SkipSet(s, Whitespace, f + 1) - 1
        l == LinkEnd(s, g)
    IN  IF e = -1 THEN -1 ELSE IF l # -1 THEN l ELSE g

\* First position >= from at which the operator gives an end, as
\* [at, end]; at = -1 when there is none.
FirstMatch(s, from, End(_, _)) ==
    LET hits == {i \in from..(Len(s) - 1) : End(s, i) # -1}
    IN  IF hits = {} THEN [at |-> -1, end |-> -1]
        ELSE [at |-> Least(hits), end |-> End(s, Least(hits))]

\* re.search of (<trailer>|<link>): at each position the trailer is tried
\* before the link.
TrailerOrLinkEnd(s, i) ==
    IF TrailerEnd(s, i) # -1 THEN TrailerEnd(s, i) ELSE LinkEnd(s, i)

\* Start of the match of (<label>\s*)$ under re.MULTILINE, for a label match
\* that ends at e: the white space after the label runs to the end of the
\* text or holds a newline.
LabelEndsLine(s, e) ==
    LET f == SkipSet(s, Whitespace, e + 1) - 1
    IN  e # -1 /\ (f = Len(s) \/ \E k \in e..(f - 1) : s[k + 1] = "\n")

\* (\*\*Note:\*\*\s*)$
NoteEnd(s, i) ==
    IF IsAt(s, S_Note, i + 1) /\ LabelEndsLine(s, i + Len(S_Note))
    THEN i + Len(S_Note) ELSE -1

\* (\*\*Additional\s+Fees?:\*\*\s*)$ on the lower-cased text
AdditionalEnd(s, i) ==
    LET e == WordsEnd(s, W_additional_fee, i)
        f == IF IsAt(s, <<"s">>, e + 1) THEN e + 1 ELSE e
    IN  IF e # -1 /\ IsAt(s, <<":", "*", "*">>, f + 1) /\ LabelEndsLine(s, f + 3)
        THEN f + 3 ELSE -1

\* start_pos (lines 267-278 and 342-358): the label found in the 200
\* characters before pos (a "**Note:**", or with_additional an
\* "**Additional Fees:**", that ends its line), else the start of the line,
\* else 50 characters back.
SectionStart(content, pos, with_additional) ==
    LET from == Max(0, pos - 200)
        before_text == Slice(content, from, pos)
        note_match == FirstMatch(before_text, 0, NoteEnd)
        additional_match == FirstMatch(Lower(before_text), 0, AdditionalEnd)
        line_start == PyRFind(content, "\n", from, pos)
    IN  IF note_match.at # -1 THEN pos - (Len(before_text) - note_match.at)
        ELSE IF with_additional /\ additional_match.at # -1
        THEN pos - (Len(before_text) - additional_match.at)
        ELSE IF line_start # -1 THEN line_start + 1
        ELSE Max(0, pos - 50)

\* End of a match of \.\s*(?:\n|$) whose full stop is at position d, or -1:
\* the white space after the full stop runs to the end of the text, or else
\* the match ends after the last newline of that white space.
SentenceEnd(s, d) ==
    LET f == SkipSet(s, Whitespace, d + 2) - 1
        newlines == {k \in (d + 1)..(f - 1) : s[k + 1] = "\n"}
    IN  IF ~IsAt(s, <<".">>, d + 1) THEN -1
        ELSE IF f = Len(s) THEN f
        ELSE IF newlines = {} THEN -1
        ELSE 1 + CHOOSE k \in newlines : \A j \in newlines : j <= k

\* End of a match of \.\s+.*?\.\s*(?:\n|$) whose first full stop is at d, or -1.
TwoSentencesEnd(s, d) ==
    LET f == SkipSet(s, Whitespace, d + 2) - 1
    IN  IF ~IsAt(s, <<".">>, d + 1) \/ f = d + 1 THEN -1
        ELSE FirstMatch(s, f, SentenceEnd).end

\* [start, end) replaced and the text preserved, in the generic branch
\* (lines 261-318): "An Annual Enhancement Fee applies" without amounts.
GenericSpanAt(content, an_pos) ==
    LET after_text == Slice(content, an_pos, an_pos + 300)
        lower_after == Lower(after_text)
        terms_match == FirstMatch(lower_after, 0, TrailerEnd)
        link_match == FirstMatch(lower_after, 0, LinkEnd)
        preserved == IF terms_match.at # -1
                     THEN Slice(after_text, terms_match.at, terms_match.end)
                     ELSE Slice(after_text, link_match.at, link_match.end)
        group0 == IF terms_match.at # -1 THEN Slice(after_text, 0, terms_match.end)
                  ELSE Slice(after_text, 0, link_match.end)
        end_match == FirstMatch(after_text, 0, SentenceEnd)
        next_sentence == FirstMatch(after_text, 0, TwoSentencesEnd)
    IN  [start_pos |-> SectionStart(content, an_pos, FALSE),
         end_pos |->
            IF terms_match.at # -1 \/ link_match.at # -1
            THEN an_pos + PyFind(group0, preserved, 0)
            ELSE IF next_sentence.at # -1 THEN an_pos + next_sentence.end
            ELSE IF end_match.at # -1 THEN an_pos + end_match.end
            ELSE IF Contains(after_text, <<"\n">>)
            THEN an_pos + Len(Split(after_text, "\n")[1])
            ELSE Len(after_text),
         preserved_text |->
            IF terms_match.at # -1 \/ link_match.at # -1
            THEN <<"\n", "\n">> \o Strip(preserved)
            ELSE <<>>]

\* The generic branch: the sentence is looked for from search_start, and the
\* span is worked out from where it begins (from fee_pos when it is not found).
GenericSpan(content, fee_pos, search_start) ==
    LET found == PyFind(Lower(content), S_an_annual_applies, search_start)
    IN  GenericSpanAt(content, IF found = -1 THEN fee_pos ELSE found)

\* The lookahead (?=\s+Other\s+terms\s+and\s+conditions\s+apply|\[Click\s+here
\* |\n\n#|\Z) at position e of the lower-cased text.
LegacyStop(s, e) ==
    \/ e = Len(s)
    \/ /\ SkipSet(s, Whitespace, e + 1) - 1 > e
       /\ WordsEnd(s, W_other_terms, SkipSet(s, Whitespace, e + 1) - 1) # -1
    \/ WordsEnd(s, W_click_here, e) # -1
    \/ IsAt(s, <<"\n", "\n", "#">>, e + 1)

\* [start, end) replaced and the text preserved, in the legacy branch
\* (lines 342-401): the text with the old amounts.
LegacySpanAfter(content, fee_pos, remaining, len, card_or_extended) ==
    LET after_text == Slice(remaining, len, len + 100)
        preserved_match == FirstMatch(Lower(after_text), 0, TrailerOrLinkEnd)
        preserve == card_or_extended /\ preserved_match.at # -1
    IN  [start_pos |-> SectionStart(content, fee_pos, TRUE),
         end_pos |-> fee_pos + len + (IF preserve THEN preserved_match.end ELSE 0),
         preserved_text |->
            IF preserve
            THEN <<"\n", "\n">>
                    \o Strip(Slice(after_text, preserved_match.at, preserved_match.end))
            ELSE <<>>]

\* A legacy branch that ends the old paragraph at the first stop whether or
\* not the credit card clause lies before it.
LegacySpanNoExtend(content, fee_pos) ==
    LET remaining == Slice(content, fee_pos, Len(content))
        low == Lower(remaining)
        matched == Least({e \in 0..Len(low) : LegacyStop(low, e)})
        matched_text == Slice(remaining, 0, matched)
        has_card == \/ Contains(matched_text, S_299)
                    \/ Contains(Lower(matched_text), S_credit_card)
                    \/ Contains(Lower(matched_text), S_debit_card)
    IN  LegacySpanAfter(content, fee_pos, remaining, matched, has_card)

\* The legacy branch: the length of the old paragraph (the terms match, extended
\* to the end of the $2.99 clause when the match stopped short of it), then the
\* trailer after it.
LegacySpan(content, fee_pos) ==
    LET remaining == Slice(content, fee_pos, Len(content))
        low == Lower(remaining)
        matched == Least({e \in 0..Len(low) : LegacyStop(low, e)})
        matched_text == Slice(remaining, 0, matched)
        has_card == \/ Contains(matched_text, S_299)
                    \/ Contains(Lower(matched_text), S_credit_card)
                    \/ Contains(Lower(matched_text), S_debit_card)
        amount == PyFind(remaining, S_299, 0)
        extended == IF amount = -1 THEN -1
                    ELSE Least({e \in (amount + Len(S_299))..Len(low) : LegacyStop(low, e)})
    IN  LegacySpanAfter(content, fee_pos, remaining,
                        IF has_card \/ extended = -1 THEN matched ELSE extended,
                        has_card \/ extended # -1)

\* The file's new text (lines 428-436): what precedes the span, the new
\* paragraph, the preserved trailer, what follows the span.
SpliceSpan(content, span) ==
    Slice(content, 0, span.start_pos)
        \o new_enhancement_fee_text \o span.preserved_text
        \o Slice(content, span.end_pos, Len(content))

\* A splice that looks for the old amounts only after it has written the
\* new text, and reports what that look found.
ReplaceBeforeAmountCheck(content) ==
    LET fee_pos == PyFind(Lower(content), S_annual_enhancement_fee, 0)
        amount_pos == PyFind(content, S_4999, fee_pos)
        old_amounts == \/ (amount_pos # -1 /\ amount_pos <= fee_pos + 500)
                       \/ Contains(Slice(content, fee_pos, fee_pos + 500), S_8998)
    IN  IF Contains(content, S_sig_4995) /\ Contains(content, S_sig_8995)
        THEN [ok |-> TRUE, text |-> content]
        ELSE IF fee_pos = -1 THEN [ok |-> FALSE, text |-> content]
        ELSE [ok |-> old_amounts,
              text |-> SpliceSpan(content, LegacySpan(content, fee_pos))]

\* A fee splice that does not look for the new text first.
ReplaceWithoutCurrentCheck(content) ==
    LET low == Lower(content)
        fee_pos == PyFind(low, S_annual_enhancement_fee, 0)
        search_start == Max(0, fee_pos - 50)
        remaining_text == Slice(content, search_start, fee_pos + 400)
        has_applies == Contains(Lower(remaining_text), S_applies)
        has_dollar_amounts == \/ Contains(remaining_text, S_4999)
                              \/ Contains(remaining_text, S_8998)
                              \/ Contains(remaining_text, S_299)
        amount_pos == PyFind(content, S_4999, fee_pos)
        old_amounts == \/ (amount_pos # -1 /\ amount_pos <= fee_pos + 500)
                       \/ Contains(Slice(content, fee_pos, fee_pos + 500), S_8998)
    IN  IF fee_pos = -1 THEN [ok |-> FALSE, text |-> content]
        ELSE IF ~(has_applies /\ ~has_dollar_amounts) /\ ~old_amounts
        THEN [ok |-> FALSE, text |-> content]
        ELSE [ok |-> TRUE,
              text |-> SpliceSpan(content,
                                  IF has_applies /\ ~has_dollar_amounts
                                  THEN GenericSpan(content, fee_pos, search_start)
                                  ELSE LegacySpan(content, fee_pos))]

\* replace_enhancement_fee_text on a file with the given text.
replace_enhancement_fee_text(content) ==
    LET low == Lower(content)
        fee_pos == PyFind(low, S_annual_enhancement_fee, 0)
        search_start == Max(0, fee_pos - 50)
        remaining_text == Slice(content, search_start, fee_pos + 400)
        has_applies == Contains(Lower(remaining_text), S_applies)
        has_dollar_amounts == \/ Contains(remaining_text, S_4999)
                              \/ Contains(remaining_text, S_8998)
                              \/ Contains(remaining_text, S_299)
        amount_pos == PyFind(content, S_4999, fee_pos)
        old_amounts == \/ (amount_pos # -1 /\ amount_pos <= fee_pos + 500)
                       \/ Contains(Slice(content, fee_pos, fee_pos + 500), S_8998)
    IN  IF Contains(content, S_sig_4995) /\ Contains(content, S_sig_8995)
        THEN [ok |-> TRUE, text |-> content]
        ELSE IF fee_pos = -1 THEN [ok |-> FALSE, text |-> content]
        ELSE IF ~(has_applies /\ ~has_dollar_amounts) /\ ~old_amounts
        THEN [ok |-> FALSE, text |-> content]
        ELSE [ok |-> TRUE,
              text |-> SpliceSpan(content,
                                  IF has_applies /\ ~has_dollar_amounts
                                  THEN GenericSpan(content, fee_pos, search_start)
                                  ELSE LegacySpan(content, fee_pos))]

-----------------------------------------------------------------------------
(* ClubFileSplitter (split_club_files.py)                                  *)
(*                                                                         *)
(* The file is read in text mode, so a line ends at "\n".                  *)

S_ClubNamePrefix == <<"C","l","u","b"," ","N","a","m","e",":"," ">>

\* A separator line one character short.
S_Separator79 == [i \in 1..79 |-> "="]

\* The separator line split_club_sections skips (line 81).
S_Separator == [i \in 1..80 |-> "="]

\* The characters clean_filename replaces by "_": [<>:"/\\|?*]
InvalidFilenameChars == {"<", ">", ":", "\"", "/", "\\", "|", "?", "*"}

\* file.readlines() with line.rstrip('\n') on each line: the pieces between
\* the "\n" of the text; a text that ends in "\n" has no empty last line.
ReadLines(text) ==
    LET pieces == Split(text, "\n")
    IN  IF pieces[Len(pieces)] = <<>> THEN SubSeq(pieces, 1, Len(pieces) - 1)
        ELSE pieces

\* club_sections with the club in progress added, when there is one
\* (lines 68-72 and 85-89).
SaveCurrent(club_sections, current_club, current_content) ==
    IF current_club # <<>> /\ current_content # <<>>
    THEN Append(club_sections, [name |-> current_club[1],
                                content |-> Join(current_content, <<"\n">>)])
    ELSE club_sections

\* The loop of split_club_sections (lines 62-89) over the lines that are left;
\* current_club is None (<<>>) before the first club line.
RECURSIVE SplitLoop(_, _, _, _)
SplitLoop(lines, current_club, current_content, club_sections) ==
    IF lines = <<>> THEN SaveCurrent(club_sections, current_club, current_content)
    ELSE IF StartsWith(Head(lines), S_ClubNamePrefix)
    THEN SplitLoop(Tail(lines), <<Head(lines)>>, <<Head(lines)>>,
                   SaveCurrent(club_sections, current_club, current_content))
    ELSE IF current_club # <<>> /\ Head(lines) # S_Separator
    THEN SplitLoop(Tail(lines), current_club, Append(current_content, Head(lines)),
                   club_sections)
    ELSE SplitLoop(Tail(lines), current_club, current_content, club_sections)

\* split_club_sections on a file with the given text.
split_club_sections(text) == SplitLoop(ReadLines(text), <<>>, <<>>, <<>>)

\* str.strip(chars)
StripChars(s, cs) ==
    LET a == SkipSet(s, cs, 1)
        b == SkipSetBack(s, cs, Len(s))
    IN  IF a > b THEN <<>> ELSE SubSeq(s, a, b)

\* clean_filename (lines 32-48)
clean_filename(club_name) ==
    LET a == ReplaceAll(club_name, S_ClubNamePrefix, <<>>, 1)
        b == [i \in 1..Len(a) |-> IF a[i] \in InvalidFilenameChars THEN "_" ELSE a[i]]
        c == ReplaceChar(b, " ", "_")
    IN  StripChars(c, {".", " "})

S_txt == <<".", "t", "x", "t">>

\* save_club_files (lines 108-137), every write succeeding: the files of the
\* output directory by name (a later section with the name of an earlier one
\* overwrites its file) and the count returned.
RECURSIVE SaveLoop(_, _, _)
SaveLoop(club_sections, files, saved_count) ==
    IF club_sections = <<>> THEN [files |-> files, saved_count |-> saved_count]
    ELSE LET club == Head(club_sections)
             name == clean_filename(club.name) \o S_txt
         IN  SaveLoop(Tail(club_sections),
                      [f \in DOMAIN files \cup {name} |->
                          IF f = name THEN club.content ELSE files[f]],
                      saved_count + 1)

save_club_files(club_sections) == SaveLoop(club_sections, <<>>, 0)

-----------------------------------------------------------------------------
(* SpecNorm: normalize_club_name applied to raw names and their variations *)

\* The pieces raw names are assembled from: the organization tags, the three
\* word separators, a letter, a state abbreviation and a digit.
NameFragments ==
    { <<"C","F","F",":">>, <<"I","n","-","S","h","a","p","e",":">>,
      <<" ">>, <<"_">>, <<"-">>, <<"a">>, S_ca, <<"9">> }

\* The organization prefixes a variation may put in front of a name.
OrgPrefixes == { <<"C","F","F",":"," ">>, <<"I","n","-","S","h","a","p","e",":"," ">> }

Separators == {" ", "_", "-"}

NormStart ==
    /\ raw = <<>> /\ alt = <<>>
    /\ key = NoKey /\ altKey = NoKey /\ rekey = NoKey
    /\ varied = <<>> /\ nfrag = 0 /\ npc = "build"

\* The caller assembles a raw name; alt starts as the same name.
NormAppend(f) ==
    /\ npc = "build"
    /\ nfrag < MaxFrags
    /\ raw' = raw \o f
    /\ alt' = raw \o f
    /\ nfrag' = nfrag + 1
    /\ UNCHANGED <<key, altKey, rekey, varied, npc>>
    /\ NormFrame

\* alt changes the letter case of one character.
VaryCase(i) ==
    /\ npc \in {"build", "vary"}
    /\ Len(varied) < MaxVary
    /\ IsUpper(alt[i]) \/ IsLower(alt[i])
    /\ alt' = [alt EXCEPT ![i] = IF IsUpper(alt[i]) THEN LowerChar(alt[i])
                                                     ELSE UpperChar(alt[i])]
    /\ varied' = Append(varied, "case")
    /\ npc' = "vary"
    /\ UNCHANGED <<raw, key, altKey, rekey, nfrag>>
    /\ NormFrame

\* alt writes one word separator as another of underscore, hyphen, space.
VarySeparator(i, c) ==
    /\ npc \in {"build", "vary"}
    /\ Len(varied) < MaxVary
    /\ alt[i] \in Separators
    /\ c # alt[i]
    /\ alt' = [alt EXCEPT ![i] = c]
    /\ varied' = Append(varied, "separator")
    /\ npc' = "vary"
    /\ UNCHANGED <<raw, key, altKey, rekey, nfrag>>
    /\ NormFrame

\* alt gets a leading organization prefix.
VaryPrefix(p) ==
    /\ npc \in {"build", "vary"}
    /\ Len(varied) < MaxVary
    /\ alt' = p \o alt
    /\ varied' = Append(varied, "prefix")
    /\ npc' = "vary"
    /\ UNCHANGED <<raw, key, altKey, rekey, nfrag>>
    /\ NormFrame

\* normalize_club_name is called on both names.
Normalize ==
    /\ npc \in {"build", "vary"}
    /\ key' = normalize_club_name(raw)
    /\ altKey' = normalize_club_name(alt)
    /\ npc' = "keyed"
    /\ UNCHANGED <<raw, alt, rekey, varied, nfrag>>
    /\ NormFrame

\* normalize_club_name is called on its own result.
Renormalize ==
    /\ npc = "keyed"
    /\ rekey' = normalize_club_name(key)
    /\ npc' = "rekeyed"
    /\ UNCHANGED <<raw, alt, key, altKey, varied, nfrag>>
    /\ NormFrame

-----------------------------------------------------------------------------
(* SpecCsv: a CSV file is loaded row by row, then written out by the       *)
(* formatter (step 1 of the workflow) and read for one club by             *)
(* read_pricing_content_from_csv (step 3).                                 *)

S_RocklinEast == <<"R","o","c","k","l","i","n"," ","E","a","s","t">>
S_rocklin_east_sp == <<" ","r","o","c","k","l","i","n","-","e","a","s","t",
    " ">>
S_Midtown == <<"M","i","d","t","o","w","n">>
S_Towel == <<"T","o","w","e","l">>
S_AddAdult_sp == <<" ","A","d","d"," ","A","d","u","l","t"," ">>

\* A row of the pricing CSV: id, club name, level, network name, network
\* access, elevate offering, fee type, five unused cells, the cells 12 to 14,
\* the cells 15 to 17 and cell 18, cut to n cells.
MkRow(club, fee, a, b, extra, n) ==
    SubSeq(<< <<"1","0","1">>, club, <<"G","o","l","d">>, <<"N","e","t","A">>,
              <<"F","u","l","l">>, <<"N","o","n","e">>, fee,
              <<>>, <<>>, <<>>, <<>>, <<>>,
              a[1], a[2], a[3], b[1], b[2], b[3], extra >>, 1, n)

NoTriple == << <<>>, <<>>, <<>> >>

\* The 15-cell row of the end-to-end example: $10, $15, $20 in cells 12 to 14.
Row15 ==
    MkRow(S_RocklinEast, fee_types[5],
          << <<"$","1","0">>, <<"$","1","5">>, <<"$","2","0">> >>,
          NoTriple, <<>>, 15)
\* The same club and fee type with $10, $15, $20 in cells 15 to 17, other
\* prices in cells 12 to 14 and $30 in cell 18.
Row19 ==
    MkRow(S_RocklinEast, fee_types[5],
          << <<"$","1","1">>, <<"$","1","6">>, <<"$","2","1">> >>,
          << <<"$","1","0">>, <<"$","1","5">>, <<"$","2","0">> >>,
          <<"$","3","0">>, 19)
\* A Member Type row whose club name is written differently.
RowMember ==
    MkRow(S_rocklin_east_sp, fee_types[1],
          << <<"A">>, S_Dash, <<>> >>, << <<"B">>, S_Dash, <<>> >>, S_Dash, 19)
\* Blank-like and padded values.
RowAdult ==
    MkRow(S_RocklinEast, S_AddAdult_sp,
          << <<" ","$","5"," ">>, S_DollarDash, S_Dollar >>,
          << <<" ","$","5"," ">>, S_DollarDash, S_Dollar >>, <<>>, 18)
\* Another club.
RowMidtown ==
    MkRow(S_Midtown, fee_types[6],
          << <<"$","7">>, <<"$","7">>, <<"$","7">> >>,
          << <<"$","7">>, <<"$","7">>, <<"$","7">> >>, <<"$","7">>, 19)
\* A fee type outside fee_types.
RowTowel ==
    MkRow(S_RocklinEast, S_Towel,
          << <<"$","7">>, <<"$","7">>, <<"$","7">> >>,
          << <<"$","7">>, <<"$","7">>, <<"$","7">> >>, <<>>, 18)
\* A row that ends with its fee-type cell.
RowShort == MkRow(S_RocklinEast, fee_types[7], NoTriple, NoTriple, <<>>, 7)
\* A row of one cell.
RowOne == << <<"1","0","1">> >>

CsvRowInputs ==
    { Row15, Row19, RowMember, RowAdult, RowMidtown, RowTowel, RowShort, RowOne }

\* A header of n columns named "c" with the given name at 0-based index k.
MkHeader(n, k, name) == [i \in 1..n |-> IF i = k + 1 THEN name ELSE <<"c">>]

\* Anchor at column 17, nothing after it.
Header18 == MkHeader(18, 17, S_LifestyleLocalNetwork)
\* Anchor (the other accepted name) at column 17 and one more tier after it.
Header19 ==
    MkHeader(18, 17, S_LifestyleNetworkPlus)
        \o << <<"P","r","e","m","i","u","m"," ","-"," ","N","F","C">> >>
\* Neither accepted name in the header.
HeaderNoAnchor == MkHeader(18, 17, <<"L","i","f","e","s","t","y","l","e">>)
\* The layout process_csv_file reads: 15 columns, the third tier at column 14.
Header15 == MkHeader(15, 14, S_LifestyleNetworkPlus)

CsvHeaderInputs == { Header18, Header19, HeaderNoAnchor, Header15 }

\* The club names read_pricing_content_from_csv is asked for.
CsvTargetInputs == { S_RocklinEast, S_Midtown }

CsvStart ==
    /\ csvHeader \in CsvHeaderInputs
    /\ csvTarget \in CsvTargetInputs
    /\ csvRows = <<>>
    /\ csvOut = Unset /\ fmtOut = Unset /\ cpc = "load"

\* One more row in the CSV file.
CsvAddRow(r) ==
    /\ cpc = "load"
    /\ Len(csvRows) < MaxRows
    /\ csvRows' = Append(csvRows, r)
    /\ UNCHANGED <<csvHeader, csvTarget, csvOut, fmtOut, cpc>>
    /\ CsvFrame

\* Step 1: InShapePricingFormatter.process_csv_file on the file.
ProcessCsvFile ==
    /\ cpc = "load"
    /\ fmtOut' = process_csv_file(csvRows)
    /\ cpc' = "formatted"
    /\ UNCHANGED <<csvHeader, csvRows, csvTarget, csvOut>>
    /\ CsvFrame

\* Step 3: read_pricing_content_from_csv on the file, for the target club.
ReadPricingContentFromCsv ==
    /\ cpc = "formatted"
    /\ csvOut' = read_pricing_content_from_csv(csvHeader, csvRows, csvTarget)
    /\ cpc' = "read"
    /\ UNCHANGED <<csvHeader, csvRows, csvTarget, fmtOut>>
    /\ CsvFrame

-----------------------------------------------------------------------------
(* SpecMatch: the two directories are listed file by file, in any order,   *)
(* then build_club_mapping pairs the text files with the documents.        *)

T_Midtown == <<"M","i","d","t","o","w","n",".","t","x","t">>
T_Madison == <<"C","F","F","_","_","M","a","d","i","s","o","n",".","t","x",
    "t">>
T_SportsComplex == <<"S","p","o","r","t","s","_","C","o","m","p","l","e",
    "x",".","t","x","t">>
D_midtown == <<"m","i","d","t","o","w","n","_","c","l","e","a","n",".","m",
    "d">>
D_Midtown_zip == <<"M","i","d","t","o","w","n","-","c","a","-","9","_","c",
    "l","e","a","n",".","m","d">>
D_downtown == <<"w","w","w",".","i","n","s","h","a","p","e",".","c","o","m",
    "_","g","y","m","s","_","d","o","w","n","t","o","w","n","-","c","a","-",
    "9","5","8","1","4","_","c","l","e","a","n",".","m","d">>
D_madison == <<"m","a","d","i","s","o","n","_","c","l","e","a","n",".","m",
    "d">>
D_madison_i_80 == <<"m","a","d","i","s","o","n","-","i","-","8","0","_","c",
    "l","e","a","n",".","m","d">>
D_rocklin_east == <<"r","o","c","k","l","i","n","-","e","a","s","t","-","c",
    "a","l","i","f","o","r","n","i","a","-","9","5","6","7","7","_","c","l",
    "e","a","n",".","m","d">>
D_unclean == <<"d","o","w","n","t","o","w","n",".","m","d">>

T_Downtown == <<"D","o","w","n","t","o","w","n",".","t","x","t">>

TxtFileInputs == {T_Midtown, T_Madison, T_SportsComplex, T_Downtown}

MdFileInputs ==
    {D_midtown, D_Midtown_zip, D_downtown, D_madison, D_madison_i_80,
     D_rocklin_east, D_unclean}

\* The elements of a sequence.
Range(s) == {s[i] : i \in DOMAIN s}

MatchStart ==
    /\ txtDir = <<>> /\ mdDir = <<>> /\ clubMapping = Unset /\ mpc = "list"

\* The listing of the text directory yields one more file.
ListTxtFile(f) ==
    /\ mpc = "list"
    /\ Len(txtDir) < MaxTxt
    /\ f \notin Range(txtDir)
    /\ txtDir' = Append(txtDir, f)
    /\ UNCHANGED <<mdDir, clubMapping, mpc>>
    /\ MatchFrame

\* The listing of the document directory yields one more file.
ListMdFile(f) ==
    /\ mpc = "list"
    /\ Len(mdDir) < MaxMd
    /\ f \notin Range(mdDir)
    /\ mdDir' = Append(mdDir, f)
    /\ UNCHANGED <<txtDir, clubMapping, mpc>>
    /\ MatchFrame

BuildClubMapping ==
    /\ mpc = "list"
    /\ clubMapping' = build_club_mapping(txtDir, mdDir)
    /\ mpc' = "mapped"
    /\ UNCHANGED <<txtDir, mdDir>>
    /\ MatchFrame

-----------------------------------------------------------------------------
(* SpecPricing and SpecFee: a document is assembled from fragments, then   *)
(* spliced, and the result is spliced once more (as when the output        *)
(* directory of one run is the document directory of the next, and as the  *)
(* last loop of run does for the fee text).                                *)

P_Block == <<"M","e","m","b","e","r"," ","T","y","p","e",":"," ","A","\n",
    "S","I","L","V","E","R"," ","S","N","E","A","K","E","R","S",":"," ","a",
    "v","a","i","l","a","b","l","e">>
P_MemberType == <<"M","e","m","b","e","r"," ","T","y","p","e",":"," ","B">>
P_Insurance == <<"\n","I","n","s","u","r","a","n","c","e"," ","A","v","a",
    "i","l","a","b","i","l","i","t","y",":"," ","n","o","t"," ","a","v","a",
    "i","l","a","b","l","e">>
P_PeerFit == <<"\n","P","e","e","r"," ","F","i","t",":"," ","n","o","t"," ",
    "a","v","a","i","l","a","b","l","e">>
P_Blank == <<"\n","\n">>
P_GetStarted == <<"\n","[","G","e","t"," ","S","t","a","r","t","e","d","]",
    "(","u",")">>
P_Other == <<"\n","H","o","u","r","s",":"," ","5","-","9">>
P_Legacy == <<"M","e","m","b","e","r"," ","T","y","p","e",":"," ","C","\n",
    "\n","A","v","a","i","l","a","b","i","l","i","t","y",":","\n","S","I",
    "L","V","E","R"," ","S","N","E","A","K","E","R","S",":"," ","a","v","a",
    "i","l","a","b","l","e">>
F_Generic == <<"A","n"," ","A","n","n","u","a","l"," ","E","n","h","a","n",
    "c","e","m","e","n","t"," ","F","e","e"," ","a","p","p","l","i","e","s",
    ".">>
F_Legacy == <<"A","n","n","u","a","l"," ","E","n","h","a","n","c","e","m",
    "e","n","t"," ","F","e","e"," ","o","f"," ","$","4","9",".","9","9"," ",
    "a","n","d"," ","$","8","9",".","9","8",".">>
F_Card == <<" ","$","2",".","9","9"," ","c","r","e","d","i","t"," ","c","a",
    "r","d"," ","f","e","e",".">>
F_Trailer == <<" ","O","t","h","e","r"," ","t","e","r","m","s"," ","a","n",
    "d"," ","c","o","n","d","i","t","i","o","n","s"," ","a","p","p","l","y",
    "."," ","[","C","l","i","c","k"," ","h","e","r","e","]","(","u",")">>
F_TrailerLong == <<" ","O","t","h","e","r"," ","t","e","r","m","s"," ","a",
    "n","d"," ","c","o","n","d","i","t","i","o","n","s"," ","a","p","p","l",
    "y","."," ","[","C","l","i","c","k"," ","h","e","r","e","]","(","h","t",
    "t","p","s",":","/","/","w","w","w",".","i","n","s","h","a","p","e",".",
    "c","o","m","/","l","e","g","a","l","/","m","e","m","b","e","r","s","h",
    "i","p","-","t","e","r","m","s","-","a","n","d","-","c","o","n","d","i",
    "t","i","o","n","s",")">>
F_Heading == <<"\n","\n","#"," ","N","e","x","t">>
F_Note == <<"*","*","N","o","t","e",":","*","*"," ">>
F_Sentence == <<" ","S","e","e"," ","s","t","a","f","f",".","\n">>

F_Current == <<"A","n","n","u","a","l"," ","e","n","h","a","n","c","e","m",
    "e","n","t"," ","f","e","e"," ","o","f"," ","$","4","9",".","9","5"," ",
    "f","o","r"," ","t","h","e"," ","f","i","r","s","t"," ","m","e","m","b",
    "e","r"," ","a","n","d"," ","$","8","9",".","9","5"," ","f","o","r"," ",
    "a","l","l"," ","m","e","m","b","e","r","s","h","i","p","s",".">>

PricingFragments ==
    {P_Block, P_MemberType, P_Insurance, P_PeerFit, P_Blank, P_GetStarted, P_Other}

FeeFragments ==
    {F_Generic, F_Legacy, F_Card, F_Trailer, F_TrailerLong, F_Heading, F_Note,
     F_Sentence, F_Current}

\* The pricing texts run can hand to the pricing splice: the text
\* read_pricing_content_from_csv renders for a club with a Member Type row
\* and for a club without one (RenderedInputs), and a block read from a text
\* file.
RenderedInputs ==
    {read_pricing_content_from_csv(Header19, <<RowMember, Row19>>, S_RocklinEast).pricing_content,
     read_pricing_content_from_csv(Header19, <<Row19>>, S_RocklinEast).pricing_content}

NewContentInputs == RenderedInputs \cup {P_Legacy}

SpliceStart ==
    /\ docText = <<>> /\ docParts = 0 /\ newContent = <<>>
    /\ priced = Unset /\ repriced = Unset /\ feeOut = Unset /\ feeAgain = Unset
    /\ spc = "build"

\* One more fragment at the end of the document.
DocAppend(f) ==
    /\ spc = "build"
    /\ docParts < MaxDocParts
    /\ docText' = docText \o f
    /\ docParts' = docParts + 1
    /\ UNCHANGED <<newContent, priced, repriced, feeOut, feeAgain, spc>>
    /\ SpliceFrame

\* replace_pricing_section_in_md on the document.
SplicePricing(new_pricing_content) ==
    /\ spc = "build"
    /\ newContent' = new_pricing_content
    /\ priced' = replace_pricing_section_in_md(docText, new_pricing_content)
    /\ spc' = "priced"
    /\ UNCHANGED <<docText, docParts, repriced, feeOut, feeAgain>>
    /\ SpliceFrame

\* replace_pricing_section_in_md on the document it has written.
SplicePricingAgain ==
    /\ spc = "priced"
    /\ repriced' = replace_pricing_section_in_md(priced.text, newContent)
    /\ spc' = "repriced"
    /\ UNCHANGED <<docText, docParts, newContent, priced, feeOut, feeAgain>>
    /\ SpliceFrame

\* replace_enhancement_fee_text on the document.
SpliceFee ==
    /\ spc = "build"
    /\ feeOut' = replace_enhancement_fee_text(docText)
    /\ spc' = "fee"
    /\ UNCHANGED <<docText, docParts, newContent, priced, repriced, feeAgain>>
    /\ SpliceFrame

\* replace_enhancement_fee_text on the document it has written.
SpliceFeeAgain ==
    /\ spc = "fee"
    /\ feeAgain' = replace_enhancement_fee_text(feeOut.text)
    /\ spc' = "again"
    /\ UNCHANGED <<docText, docParts, newContent, priced, repriced, feeOut>>
    /\ SpliceFrame

-----------------------------------------------------------------------------
(* SpecRun: run on a CSV file (or none), a directory of text files and a   *)
(* directory of documents, from its start to its summary.  The output      *)
(* directory is empty at the start.                                        *)

\* A row of the club Midtown whose fee type is outside fee_types.
RowMidtownTowel ==
    MkRow(S_Midtown, S_Towel,
          << <<"$","7">>, <<"$","7">>, <<"$","7">> >>,
          << <<"$","7">>, <<"$","7">>, <<"$","7">> >>, <<>>, 18)

\* A text file as the formatter writes it for a club with a Member Type row,
\* and for a club with no row of a fee type of fee_types.
TxtWithPricing == <<"C","l","u","b"," ","N","a","m","e",":"," ","M","i","d",
    "t","o","w","n","\n","\n","P","r","i","c","i","n","g"," ","D","e","t",
    "a","i","l","s",":","\n","M","e","m","b","e","r"," ","T","y","p","e",
    ":"," ","O","n","e"," ","C","l","u","b",":"," ","A","\n","\n","N","e",
    "t","w","o","r","k"," ","N","a","m","e",":"," ","N","\n">>
TxtWithoutPricing == <<"C","l","u","b"," ","N","a","m","e",":"," ","M","i",
    "d","t","o","w","n","\n","\n","P","r","i","c","i","n","g"," ","D","e",
    "t","a","i","l","s",":","\n","\n","N","e","t","w","o","r","k"," ","N",
    "a","m","e",":"," ","N","\n">>

S_Title == <<"#"," ","C","l","u","b","\n","\n">>
S_clean_md == <<"_","c","l","e","a","n",".","m","d">>

\* Documents with both regions, with the pricing region only, with the fee
\* disclaimer only, and with neither.
M_Both == S_Title \o P_Block \o P_Blank \o F_Note \o F_Legacy \o F_Card \o F_Trailer
M_PricingOnly == S_Title \o P_Block \o P_Blank \o P_GetStarted
M_FeeOnly == S_Title \o F_Generic \o F_Trailer
M_Neither == S_Title \o P_Other

\* The texts a file of the document directory can have.
MdTextInputs(md_file) ==
    IF md_file = D_midtown THEN {M_Both}
    ELSE IF md_file = D_downtown THEN {M_PricingOnly}
    ELSE {M_FeeOnly, M_Neither}

\* What can go wrong with one document apart from a region that is not
\* found: the copy raises, or reading the copy raises inside one of the two
\* splices.
Faults == {"none", "copy", "pricing", "fee"}

\* The listings of at most n files out of the set S, in every order.
Listings(S, n) ==
    {l \in UNION {[1..k -> S] : k \in 0..n} :
        \A i, j \in DOMAIN l : l[i] = l[j] => i = j}

RunStart ==
    /\ txtDir \in Listings({T_Midtown, T_Madison}, MaxTxt)
    /\ mdDir \in Listings({D_midtown, D_downtown, D_madison}, MaxMd)
    /\ clubMapping = Unset /\ mpc = "off"
    /\ csvExists \in BOOLEAN
    /\ IF csvExists
       THEN /\ csvHeader \in {Header19, HeaderNoAnchor}
            /\ csvRows \in IF csvHeader = HeaderNoAnchor THEN {<<RowMidtown>>}
                            ELSE Listings({RowMidtownTowel, RowMidtown}, MaxRunRows)
       ELSE csvHeader = <<>> /\ csvRows = <<>>
    /\ csvTarget = <<>> /\ csvOut = Unset /\ fmtOut = Unset /\ cpc = "off"
    /\ txtText \in [Range(txtDir) -> {TxtWithPricing, TxtWithoutPricing}]
    /\ mdText \in {t \in [Range(mdDir) -> {M_Both, M_PricingOnly, M_FeeOnly, M_Neither}] :
                      \A md_file \in Range(mdDir) : t[md_file] \in MdTextInputs(md_file)}
    /\ item = 0 /\ csvResult = Unset /\ pricingContent = <<>>
    /\ successCount = 0 /\ failedCount = 0 /\ totalFilesProcessed = 0
    /\ updatedDir = <<>> /\ mdIdx = 0 /\ docLog = <<>> /\ sweep = Unset
    /\ rpc = "start"

\* run, lines 523-556: both directories exist; the mapping is built and the
\* counters are set to zero.
RunBuildMapping ==
    /\ rpc = "start"
    /\ clubMapping' = build_club_mapping(txtDir, mdDir)
    /\ successCount' = 0 /\ failedCount' = 0 /\ totalFilesProcessed' = 0
    /\ item' = 1
    /\ rpc' = "txt"
    /\ UNCHANGED <<csvResult, pricingContent, updatedDir, mdIdx, docLog, sweep>>
    /\ RunFrame

\* A run that counts a club without pricing content as one failure, however
\* many documents the club has.
RunReadPricingCountsClub ==
    /\ rpc = "txt"
    /\ item <= Len(clubMapping)
    /\ LET txt_file == clubMapping[item].txt
           md_files == clubMapping[item].mds
           club_name == extract_club_name_from_txt(txt_file)
           csv_result == IF csvExists
                         THEN read_pricing_content_from_csv(csvHeader, csvRows, club_name)
                         ELSE Unset
           pricing_content ==
               AcquirePricingContent(csvExists, csv_result, txtText[txt_file])
       IN  /\ csvResult' = csv_result
           /\ pricingContent' = pricing_content
           /\ IF IsFalsy(pricing_content)
              THEN /\ failedCount' = failedCount + 1
                   /\ item' = item + 1
                   /\ rpc' = "txt"
              ELSE /\ failedCount' = failedCount
                   /\ item' = IF Len(md_files) = 0 THEN item + 1 ELSE item
                   /\ rpc' = IF Len(md_files) = 0 THEN "txt" ELSE "md"
    /\ mdIdx' = 1
    /\ UNCHANGED <<clubMapping, successCount, totalFilesProcessed, updatedDir,
                   docLog, sweep>>
    /\ RunFrame

\* run, lines 562-590: the next item of the mapping.  The pricing content is
\* acquired; without one, every document of the text file is counted as
\* failed and the loop goes on to the next item; with one, run enters the
\* loop over the documents of the text file (rpc = "md").
RunReadPricing ==
    /\ rpc = "txt"
    /\ item <= Len(clubMapping)
    /\ LET txt_file == clubMapping[item].txt
           md_files == clubMapping[item].mds
           club_name == extract_club_name_from_txt(txt_file)
           csv_result == IF csvExists
                         THEN read_pricing_content_from_csv(csvHeader, csvRows, club_name)
                         ELSE Unset
           pricing_content ==
               AcquirePricingContent(csvExists, csv_result, txtText[txt_file])
       IN  /\ csvResult' = csv_result
           /\ pricingContent' = pricing_content
           /\ IF IsFalsy(pricing_content)
              THEN /\ failedCount' = failedCount + Len(md_files)
                   /\ item' = item + 1
                   /\ rpc' = "txt"
              ELSE /\ failedCount' = failedCount
                   /\ item' = IF Len(md_files) = 0 THEN item + 1 ELSE item
                   /\ rpc' = IF Len(md_files) = 0 THEN "txt" ELSE "md"
    /\ mdIdx' = 1
    /\ UNCHANGED <<clubMapping, successCount, totalFilesProcessed, updatedDir,
                   docLog, sweep>>
    /\ RunFrame

\* The file name with the given text in a directory.
WriteFile(dir, name, text) ==
    [f \in DOMAIN dir \cup {name} |-> IF f = name THEN text ELSE dir[f]]

\* run, line 604: the pricing splice on the copy.  A splice in which reading
\* the file raises returns False and leaves the file as it is.
PricingStep(text, pricing_content, fault) ==
    IF fault = "pricing" THEN [ok |-> FALSE, text |-> text]
    ELSE replace_pricing_section_in_md(text, pricing_content)

\* What run records for a document whose two splices gave these results
\* (lines 604-614), and the text the copy is left with.
SpliceResults(pricing, fee) ==
    [copied |-> TRUE,
     pricing_success |-> pricing.ok,
     enhancement_fee_success |-> fee.ok,
     text |-> fee.text]

\* run, lines 607-608: the fee splice, on what the pricing splice left.
FeeStep(pricing, fault) ==
    SpliceResults(pricing,
                  IF fault = "fee" THEN [ok |-> FALSE, text |-> pricing.text]
                  ELSE replace_enhancement_fee_text(pricing.text))

\* A run that skips the fee splice of a document whose pricing splice failed.
DocumentOutcomeShortCircuit(text, pricing_content, fault) ==
    LET pricing == PricingStep(text, pricing_content, fault)
    IN  IF pricing.ok THEN FeeStep(pricing, fault)
        ELSE SpliceResults(pricing, [ok |-> FALSE, text |-> pricing.text])

\* run, lines 594-608, for one document: the copy, then the pricing splice
\* on the copy, then the fee splice on what the pricing splice left.  A
\* splice in which reading the file raises returns False and leaves the file
\* as it is.
DocumentOutcome(text, pricing_content, fault) ==
    FeeStep(PricingStep(text, pricing_content, fault), fault)

\* The number of documents so far with a copy or a read that raised.
FaultsSoFar == Cardinality({i \in DOMAIN docLog : docLog[i].fault # "none"})

\* The entry of docLog for a document whose copy failed.
NotCopied ==
    [copied |-> FALSE, pricing_success |-> FALSE, enhancement_fee_success |-> FALSE]

\* A loop over the documents in which a copy that raises ends the run.
RunUpdateDocumentUnguarded(fault) ==
    /\ rpc = "md"
    /\ fault = "none" \/ FaultsSoFar < MaxFaults
    /\ LET txt_file == clubMapping[item].txt
           md_files == clubMapping[item].mds
           md_file == md_files[mdIdx]
           last == mdIdx = Len(md_files)
       IN  \E out \in {DocumentOutcome(mdText[md_file], pricingContent[1], fault)} :
           /\ totalFilesProcessed' = totalFilesProcessed + 1
           /\ IF fault = "copy"
              THEN /\ docLog' = Append(docLog, [txt |-> txt_file, md |-> md_file, fault |-> fault] @@ NotCopied)
                   /\ rpc' = "raised"
                   /\ UNCHANGED <<updatedDir, successCount, failedCount, mdIdx, item>>
              ELSE /\ updatedDir' = WriteFile(updatedDir, md_file, out.text)
                   /\ successCount' = successCount + (IF out.pricing_success THEN 1 ELSE 0)
                   /\ failedCount' = failedCount + (IF out.pricing_success THEN 0 ELSE 1)
                   /\ docLog' = Append(docLog,
                          [txt |-> txt_file, md |-> md_file, fault |-> fault,
                           copied |-> TRUE,
                           pricing_success |-> out.pricing_success,
                           enhancement_fee_success |-> out.enhancement_fee_success])
                   /\ mdIdx' = IF last THEN 1 ELSE mdIdx + 1
                   /\ item' = IF last THEN item + 1 ELSE item
                   /\ rpc' = IF last THEN "txt" ELSE "md"
    /\ UNCHANGED <<clubMapping, csvResult, pricingContent, sweep>>
    /\ RunFrame

\* run, lines 590-620: the next document of the current item.  A copy that
\* raises is counted as failed and the loop goes on; otherwise both splices
\* are applied to the copy and the document is counted by the outcome of the
\* pricing splice alone.
RunUpdateDocument(fault) ==
    /\ rpc = "md"
    /\ fault = "none" \/ FaultsSoFar < MaxFaults
    /\ LET txt_file == clubMapping[item].txt
           md_files == clubMapping[item].mds
           md_file == md_files[mdIdx]
           last == mdIdx = Len(md_files)
       IN  \E out \in {DocumentOutcome(mdText[md_file], pricingContent[1], fault)} :
           /\ totalFilesProcessed' = totalFilesProcessed + 1
           /\ IF fault = "copy"
              THEN /\ failedCount' = failedCount + 1
                   /\ docLog' = Append(docLog, [txt |-> txt_file, md |-> md_file, fault |-> fault] @@ NotCopied)
                   /\ UNCHANGED <<updatedDir, successCount>>
              ELSE /\ updatedDir' = WriteFile(updatedDir, md_file, out.text)
                   /\ successCount' = successCount + (IF out.pricing_success THEN 1 ELSE 0)
                   /\ failedCount' = failedCount + (IF out.pricing_success THEN 0 ELSE 1)
                   /\ docLog' = Append(docLog,
                          [txt |-> txt_file, md |-> md_file, fault |-> fault,
                           copied |-> TRUE,
                           pricing_success |-> out.pricing_success,
                           enhancement_fee_success |-> out.enhancement_fee_success])
           /\ mdIdx' = IF last THEN 1 ELSE mdIdx + 1
           /\ item' = IF last THEN item + 1 ELSE item
           /\ rpc' = IF last THEN "txt" ELSE "md"
    /\ UNCHANGED <<clubMapping, csvResult, pricingContent, sweep>>
    /\ RunFrame

\* run, lines 622-651: after the last item, the fee splice is applied to
\* every *_clean.md file of the output directory and the summary is printed.
RunEnhancementSweep ==
    /\ rpc = "txt"
    /\ item > Len(clubMapping)
    /\ LET clean == {f \in DOMAIN updatedDir : EndsWith(f, S_clean_md)}
       IN  \E result \in {[f \in clean |-> replace_enhancement_fee_text(updatedDir[f])]} :
           /\ updatedDir' = [f \in DOMAIN updatedDir |->
                                IF f \in clean THEN result[f].text ELSE updatedDir[f]]
           /\ sweep' = [enhancement_fee_success_count |->
                            Cardinality({f \in clean : result[f].ok}),
                        enhancement_fee_failed_count |->
                            Cardinality({f \in clean : ~result[f].ok}),
                        returned |-> [f \in clean |-> result[f].ok]]
    /\ rpc' = "done"
    /\ UNCHANGED <<clubMapping, item, csvResult, pricingContent, successCount,
                   failedCount, totalFilesProcessed, mdIdx, docLog>>
    /\ RunFrame

-----------------------------------------------------------------------------
(* SpecSplit: the formatted multi-club file is written line by line, then   *)
(* split into sections, and each section is saved as the file of its club. *)

\* Club names as the CSV file can have them.
N_Midtown == <<"M","i","d">>
N_CFF_Madison == <<"C","F","F",":"," ","M","a","d">>
N_CFF_Tight == <<"C","F","F",":","M","a","d">>
N_Dotted == <<"F","i","t"," ","I","n","c",".">>
N_Slash == <<"A","/","B">>

SplitNames == {N_Midtown, N_CFF_Madison, N_CFF_Tight, N_Dotted, N_Slash}

L_Blank == <<>>
L_PricingDetails == <<"P","r","i","c","i","n","g"," ","D","e","t","a","i","l","s",":">>
L_Separator == [i \in 1..80 |-> "="]
\* "Club Name: " not at the start of the line.
L_Indented == <<" ">> \o S_ClubNamePrefix \o N_Midtown

SplitLineInputs ==
    {S_ClubNamePrefix \o n : n \in SplitNames}
        \cup {L_Blank, L_PricingDetails, L_Separator, L_Indented}

SplitStart ==
    /\ splitText = <<>> /\ splitLines = 0
    /\ clubSections = Unset /\ clubFiles = Unset /\ xpc = "build"

\* One more line of the file, ended by "\n".
SplitAppendLine(l) ==
    /\ xpc = "build"
    /\ splitLines < MaxSplitLines
    /\ splitText' = splitText \o l \o <<"\n">>
    /\ splitLines' = splitLines + 1
    /\ UNCHANGED <<clubSections, clubFiles, xpc>>
    /\ SplitFrame

\* The file ends without a "\n" after its last line.
SplitDropFinalNewline ==
    /\ xpc = "build"
    /\ splitLines > 0
    /\ splitText' = SubSeq(splitText, 1, Len(splitText) - 1)
    /\ xpc' = "written"
    /\ UNCHANGED <<splitLines, clubSections, clubFiles>>
    /\ SplitFrame

\* process_file, the call of split_club_sections.
SplitClubSections ==
    /\ xpc \in {"build", "written"}
    /\ clubSections' = split_club_sections(splitText)
    /\ xpc' = "split"
    /\ UNCHANGED <<splitText, splitLines, clubFiles>>
    /\ SplitFrame

\* process_file, the call of save_club_files; process_file returns before it
\* when no section was found.
SaveClubFiles ==
    /\ xpc = "split"
    /\ clubSections # <<>>
    /\ clubFiles' = save_club_files(clubSections)
    /\ xpc' = "saved"
    /\ UNCHANGED <<splitText, splitLines, clubSections>>
    /\ SplitFrame

-----------------------------------------------------------------------------
(* The specifications.                                                     *)

InitNorm == NormStart /\ CsvIdle /\ MatchIdle /\ RunIdle /\ SpliceIdle /\ SplitIdle

NextNorm ==
    \/ \E f \in NameFragments : NormAppend(f)
    \/ \E i \in 1..Len(alt) : VaryCase(i)
    \/ \E i \in 1..Len(alt) : \E c \in Separators : VarySeparator(i, c)
    \/ \E p \in OrgPrefixes : VaryPrefix(p)
    \/ Normalize
    \/ Renormalize

SpecNorm == InitNorm /\ [][NextNorm]_vars

InitCsv == CsvStart /\ NormIdle /\ MatchIdle /\ RunIdle /\ SpliceIdle /\ SplitIdle

NextCsv ==
    \/ \E r \in CsvRowInputs : CsvAddRow(r)
    \/ ProcessCsvFile
    \/ ReadPricingContentFromCsv

SpecCsv == InitCsv /\ [][NextCsv]_vars

InitMatch == MatchStart /\ NormIdle /\ CsvIdle /\ RunIdle /\ SpliceIdle /\ SplitIdle

NextMatch ==
    \/ \E f \in TxtFileInputs : ListTxtFile(f)
    \/ \E f \in MdFileInputs : ListMdFile(f)
    \/ BuildClubMapping

SpecMatch == InitMatch /\ [][NextMatch]_vars

InitPricing == SpliceStart /\ NormIdle /\ CsvIdle /\ MatchIdle /\ RunIdle /\ SplitIdle

NextPricing ==
    \/ \E f \in PricingFragments : DocAppend(f)
    \/ \E new_pricing_content \in NewContentInputs : SplicePricing(new_pricing_content)
    \/ SplicePricingAgain

SpecPricing == InitPricing /\ [][NextPricing]_vars

InitFee == SpliceStart /\ NormIdle /\ CsvIdle /\ MatchIdle /\ RunIdle /\ SplitIdle

NextFee ==
    \/ \E f \in FeeFragments : DocAppend(f)
    \/ SpliceFee
    \/ SpliceFeeAgain

SpecFee == InitFee /\ [][NextFee]_vars

InitRun == RunStart /\ NormIdle /\ SpliceIdle /\ SplitIdle

NextRun ==
    \/ RunBuildMapping
    \/ RunReadPricing
    \/ \E fault \in Faults : RunUpdateDocument(fault)
    \/ RunEnhancementSweep

SpecRun == InitRun /\ [][NextRun]_vars

InitSplit ==
    SplitStart /\ NormIdle /\ CsvIdle /\ MatchIdle /\ RunIdle /\ SpliceIdle

NextSplit ==
    \/ \E l \in SplitLineInputs : SplitAppendLine(l)
    \/ SplitDropFinalNewline
    \/ SplitClubSections
    \/ SaveClubFiles

SpecSplit == InitSplit /\ [][NextSplit]_vars

-----------------------------------------------------------------------------
(* The claims.                                                             *)

\* C1: normalize is idempotent: normalizing a key again returns that key.
C1_Idempotent == npc = "rekeyed" => rekey = key

\* C2: two raw names that differ only in letter case, in which of underscore,
\* hyphen and space separates the words, and in a leading organization
\* prefix have the same key.
C2_VariationInsensitive == npc \in {"keyed", "rekeyed"} => altKey = key

\* ---- claims about the CSV path (SpecCsv) ----

CsvFormatted == cpc \in {"formatted", "read"}
CsvWasRead == cpc = "read"

\* The header holds a column whose name contains one of the two anchor names.
HeaderHasAnchor ==
    \E k \in 1..Len(csvHeader) :
        \/ Contains(csvHeader[k], S_LifestyleLocalNetwork)
        \/ Contains(csvHeader[k], S_LifestyleNetworkPlus)

\* Row n of the file has a club-name cell with the target's identity.
IsTargetRow(n) ==
    /\ Len(csvRows[n]) > 1
    /\ normalize_club_name(Strip(csvRows[n][2])) = normalize_club_name(csvTarget)

SomeTargetRow == \E n \in 1..Len(csvRows) : IsTargetRow(n)

ColumnNotFound == [ret |-> "None", why |-> "ColumnNotFound"]
ClubNotFound == [ret |-> "None", why |-> "ClubNotFound"]

\* C3 as stated: ClubNotFound whenever no row has the target's identity, and
\* ColumnNotFound whenever the header has neither anchor name.
C3_Original ==
    CsvWasRead =>
        /\ (~SomeTargetRow => csvOut = ClubNotFound)
        /\ (~HeaderHasAnchor => csvOut = ColumnNotFound)

\* C3 (amended): the header is examined first.  Without an anchor column the
\* result is ColumnNotFound, whatever the rows are; with an anchor column and
\* no row of the target's identity it is ClubNotFound; in both cases None is
\* returned, so no pricing text is produced.
C3_ErrorsInOrder ==
    CsvWasRead =>
        /\ (~HeaderHasAnchor => csvOut = ColumnNotFound)
        /\ (HeaderHasAnchor /\ ~SomeTargetRow => csvOut = ClubNotFound)

\* Both error conditions at once, in a file that has rows.
C3_Witness ==
    /\ CsvWasRead
    /\ Len(csvRows) > 0
    /\ ~HeaderHasAnchor
    /\ ~SomeTargetRow
    /\ csvOut = ColumnNotFound

\* The display value the claims give a cell: the sentinel for "", "-" and
\* "$-", the trimmed text otherwise.  A cell the row does not have is empty.
SentinelDisplay(row, k) ==
    IF CellOrEmpty(row, k) \in {<<>>, S_Dash, S_DollarDash}
    THEN S_NotAvailable
    ELSE CellOrEmpty(row, k)

\* C4: every rendered fee row shows, for each of the three core tiers, the
\* sentinel when the cell of its CSV row is "", "-" or "$-", and the trimmed
\* cell otherwise; in the text read_pricing_content_from_csv builds (tiers in
\* cells 15 to 17) and in the text process_csv_file writes (cells 12 to 14).
C4_BlankIsSentinel ==
    /\ (CsvWasRead /\ csvOut.ret = "tuple" =>
            \A n \in 1..Len(csvOut.feeRows) :
                \E m \in 1..Len(csvRows) :
                    /\ IsTargetRow(m)
                    /\ CellOrEmpty(csvRows[m], add_on_fees_col) = csvOut.feeRows[n].fee
                    /\ \A k \in 1..3 :
                           csvOut.feeRows[n].vals[k] =
                               SentinelDisplay(csvRows[m], local_network_col + k - 1))
    /\ (CsvFormatted =>
            \A c \in DOMAIN fmtOut : \A n \in 1..Len(fmtOut[c].feeRows) :
                \E m \in 1..Len(csvRows) :
                    /\ Len(csvRows[m]) >= min_columns
                    /\ CellOrEmpty(csvRows[m], 1) = c
                    /\ CellOrEmpty(csvRows[m], add_on_fees_col) = fmtOut[c].feeRows[n].fee
                    /\ \A k \in 1..3 :
                           fmtOut[c].feeRows[n].vals[k] =
                               SentinelDisplay(csvRows[m], one_club_col + k - 1))

\* The fee types of fee_types, in that order, for which p holds.
FeeTypesWith(p(_)) == SelectSeq(fee_types, p)

\* Some row of the target club has fee type f in its fee-type cell.
TargetHasFee(f) ==
    \E m \in 1..Len(csvRows) :
        IsTargetRow(m) /\ Len(csvRows[m]) > add_on_fees_col
                       /\ Strip(csvRows[m][add_on_fees_col + 1]) = f

\* Some row process_csv_file keeps for club c has fee type f.
FormatterClubHasFee(c, f) ==
    \E m \in 1..Len(csvRows) :
        /\ Len(csvRows[m]) >= min_columns
        /\ Strip(csvRows[m][2]) = c
        /\ Strip(csvRows[m][add_on_fees_col + 1]) = f

\* C5: whatever the order of the rows, the rendered lines are one per fee
\* type that has a row for the club, in the order of fee_types; a fee type
\* without a row is left out and the club still gets its (possibly empty)
\* text.  Stated for read_pricing_content_from_csv and for process_csv_file.
C5_FixedFeeOrder ==
    /\ (CsvWasRead /\ HeaderHasAnchor /\ SomeTargetRow =>
            LET present == FeeTypesWith(TargetHasFee)
                lines == Split(csvOut.pricing_content, "\n")
            IN  /\ csvOut.ret = "tuple"
                /\ Len(csvOut.feeRows) = Len(present)
                /\ \A n \in 1..Len(present) : csvOut.feeRows[n].fee = present[n]
                /\ IF Len(present) = 0 THEN csvOut.pricing_content = <<>>
                   ELSE /\ Len(lines) = Len(present)
                        /\ \A n \in 1..Len(present) :
                               StartsWith(lines[n], present[n] \o S_ColonSp))
    /\ (CsvFormatted =>
            \A c \in DOMAIN fmtOut :
                LET present == FeeTypesWith(LAMBDA f : FormatterClubHasFee(c, f))
                IN  /\ Len(fmtOut[c].lines) = Len(present)
                    /\ \A n \in 1..Len(present) :
                           /\ fmtOut[c].feeRows[n].fee = present[n]
                           /\ StartsWith(fmtOut[c].lines[n], present[n] \o S_ColonSp))

\* Rows that are not in the order of fee_types, one of them with a fee type
\* outside fee_types, and two lines rendered.
C5_Witness ==
    /\ CsvWasRead
    /\ csvOut.ret = "tuple"
    /\ Len(csvOut.feeRows) = 2
    /\ Len(csvRows) = 3
    /\ \A m \in 1..3 : IsTargetRow(m)
    /\ Strip(csvRows[1][add_on_fees_col + 1]) = csvOut.feeRows[2].fee
    /\ Strip(csvRows[2][add_on_fees_col + 1]) = S_Towel
    /\ Strip(csvRows[3][add_on_fees_col + 1]) = csvOut.feeRows[1].fee

\* The first row of the file, among those for which p holds.
FirstRowWith(p(_)) ==
    csvRows[CHOOSE m \in 1..Len(csvRows) :
                p(m) /\ \A j \in 1..Len(csvRows) : p(j) => m <= j]

\* C6: when a club has several rows with the same fee type, the values
\* rendered are those of the first such row in file order; in the text
\* read_pricing_content_from_csv builds and in the text process_csv_file writes.
C6_FirstMatchWins ==
    /\ (CsvWasRead /\ csvOut.ret = "tuple" =>
            \A n \in 1..Len(csvOut.feeRows) :
                LET first == FirstRowWith(LAMBDA m :
                                 /\ IsTargetRow(m)
                                 /\ CellOrEmpty(csvRows[m], add_on_fees_col)
                                        = csvOut.feeRows[n].fee)
                IN  \A k \in 1..3 :
                        csvOut.feeRows[n].vals[k] =
                            OrNotAvailable(CellOrEmpty(first, local_network_col + k - 1)))
    /\ (CsvFormatted =>
            \A c \in DOMAIN fmtOut : \A n \in 1..Len(fmtOut[c].feeRows) :
                LET first == FirstRowWith(LAMBDA m :
                                 /\ Len(csvRows[m]) >= min_columns
                                 /\ CellOrEmpty(csvRows[m], 1) = c
                                 /\ CellOrEmpty(csvRows[m], add_on_fees_col)
                                        = fmtOut[c].feeRows[n].fee)
                IN  fmtOut[c].feeRows[n].vals = FormatterValues(first))

L_CsvDollars == <<"M","a","i","n"," ","D","u","e","s"," ","M","T","M",":",
    " ","L","o","c","a","l"," ","N","e","t","w","o","r","k",":"," ","$","1",
    "0"," ","|"," ","F","i","t","n","e","s","s"," ","P","l","u","s"," ","L",
    "o","c","a","l"," ","N","e","t","w","o","r","k",":"," ","$","1","5"," ",
    "|"," ","L","i","f","e","s","t","y","l","e"," ","N","e","t","w","o","r",
    "k"," ","P","l","u","s",":"," ","$","2","0">>
L_CsvNotAvailable == <<"M","a","i","n"," ","D","u","e","s"," ","M","T","M",
    ":"," ","L","o","c","a","l"," ","N","e","t","w","o","r","k",":"," ","N",
    "o","t"," ","a","v","a","i","l","a","b","l","e"," ","|"," ","F","i","t",
    "n","e","s","s"," ","P","l","u","s"," ","L","o","c","a","l"," ","N","e",
    "t","w","o","r","k",":"," ","N","o","t"," ","a","v","a","i","l","a","b",
    "l","e"," ","|"," ","L","i","f","e","s","t","y","l","e"," ","N","e","t",
    "w","o","r","k"," ","P","l","u","s",":"," ","N","o","t"," ","a","v","a",
    "i","l","a","b","l","e">>
L_FormatterDollars == <<"M","a","i","n"," ","D","u","e","s"," ","M","T","M",
    ":"," ","O","n","e"," ","C","l","u","b",":"," ","$","1","0"," ","|"," ",
    "L","o","c","a","l"," ","N","e","t","w","o","r","k",":"," ","$","1","5",
    " ","|"," ","L","i","f","e","s","t","y","l","e"," ","N","e","t","w","o",
    "r","k"," ","P","l","u","s",":"," ","$","2","0">>

\* The end-to-end example: anchor at column 17, club "Rocklin East".
EndToEndExample(r) ==
    /\ CsvWasRead
    /\ csvHeader = Header18
    /\ csvTarget = S_RocklinEast
    /\ csvRows = <<r>>

\* C8 as stated: for the 15-cell row, read_pricing_content_from_csv renders
\* the three tiers as $10, $15, $20.
C8_Original ==
    EndToEndExample(Row15) =>
        csvOut.ret = "tuple" /\ csvOut.pricing_content = L_CsvDollars

\* C8 (amended): read_pricing_content_from_csv reads the tiers in the cells
\* 15 to 17, which the 15-cell row does not have, and renders the three
\* tiers of that row as "Not available"; it renders $10, $15, $20 for the row
\* that carries them in the cells 15 to 17.  process_csv_file, which reads the
\* cells 12 to 14, renders $10, $15, $20 for the 15-cell row.
C8_EndToEnd ==
    /\ (EndToEndExample(Row15) =>
            /\ csvOut.ret = "tuple"
            /\ csvOut.pricing_content = L_CsvNotAvailable
            /\ fmtOut[S_RocklinEast].lines = <<L_FormatterDollars>>)
    /\ (EndToEndExample(Row19) =>
            /\ csvOut.ret = "tuple"
            /\ csvOut.pricing_content = L_CsvDollars)

C8_Witness == EndToEndExample(Row15) /\ csvOut.ret = "tuple"


\* --- the club matcher -----------------------------------------------------

ClubsMapped == mpc = "mapped"

\* The text files and the documents build_club_mapping looks at.
TxtFiles == Range(Glob(txtDir, <<".","t","x","t">>))
Docs == Range(Glob(mdDir, <<"_","c","l","e","a","n",".","m","d">>))

\* The identity of a text file and the key of a document.
TxtIdentity(f) == normalize_club_name(extract_club_name_from_txt(f))
DocKey(d) == normalize_club_name(extract_club_name_from_md(d))
DocKeys == {DocKey(d) : d \in Docs}

\* Whether the returned mapping has the text file, and the documents it maps
\* the text file to.
IsMapped(f) == \E n \in DOMAIN clubMapping : clubMapping[n].txt = f
MappedTo(f) == clubMapping[CHOOSE n \in DOMAIN clubMapping : clubMapping[n].txt = f].mds

\* The text file is mapped to one document, and that document has the key.
MappedToKey(f, k) ==
    /\ IsMapped(f)
    /\ Len(MappedTo(f)) = 1
    /\ MappedTo(f)[1] \in Docs
    /\ DocKey(MappedTo(f)[1]) = k

\* C9: every text file is resolved by the first applicable rule in the order
\* (1) multi-mapping override, (2) direct equality of its identity with a
\* document key, (3) alias whose value is a document key, (4) no match; a
\* text file that reaches (4) is absent from the mapping; every text file
\* present is mapped to a non-empty list of documents of the document
\* directory, and appears once.
C9_PriorityOrder ==
    ClubsMapped =>
        /\ \A f \in TxtFiles :
            LET id == TxtIdentity(f)
                multi == id \in DOMAIN multi_mappings
                direct == id \in DocKeys
                alias == id \in DOMAIN special_mappings
                            /\ special_mappings[id] \in DocKeys
            IN  /\ multi =>
                    /\ IsMapped(f) <=>
                          \E n \in DOMAIN multi_mappings[id] :
                              multi_mappings[id][n] \in DocKeys
                    /\ IsMapped(f) =>
                          \A n \in DOMAIN MappedTo(f) :
                              \E m \in DOMAIN multi_mappings[id] :
                                  DocKey(MappedTo(f)[n]) = multi_mappings[id][m]
                /\ ~multi /\ direct => MappedToKey(f, id)
                /\ ~multi /\ ~direct /\ alias => MappedToKey(f, special_mappings[id])
                /\ ~multi /\ ~direct /\ ~alias => ~IsMapped(f)
        /\ \A n \in DOMAIN clubMapping :
            /\ clubMapping[n].txt \in TxtFiles
            /\ Len(clubMapping[n].mds) > 0
            /\ Range(clubMapping[n].mds) \subseteq Docs
            /\ \A m \in DOMAIN clubMapping : clubMapping[m].txt = clubMapping[n].txt => m = n

\* A text file whose identity is both a document key and an alias is mapped
\* to the document of its own key, next to a text file mapped through its
\* alias.
C9_Witness ==
    /\ ClubsMapped
    /\ {D_madison, D_madison_i_80, D_rocklin_east} \subseteq Docs
    /\ IsMapped(T_Madison) /\ MappedTo(T_Madison) = <<D_madison>>
    /\ IsMapped(T_SportsComplex) /\ MappedTo(T_SportsComplex) = <<D_rocklin_east>>

\* C10: a text file whose identity is a key of the one-to-many override table
\* is mapped to exactly the documents of those targets that are document
\* keys, in the order of the override list, also when some targets are
\* missing; it is absent only when all of them are missing.
C10_PartialSuccess ==
    ClubsMapped =>
        \A f \in TxtFiles :
            TxtIdentity(f) \in DOMAIN multi_mappings =>
                LET found == SelectSeq(multi_mappings[TxtIdentity(f)],
                                       LAMBDA name : name \in DocKeys)
                IN  IF found = <<>> THEN ~IsMapped(f)
                    ELSE /\ IsMapped(f)
                         /\ Len(MappedTo(f)) = Len(found)
                         /\ \A n \in DOMAIN found :
                               /\ MappedTo(f)[n] \in Docs
                               /\ DocKey(MappedTo(f)[n]) = found[n]

\* The example of the specification: identity "midtown", a "downtown"
\* document and no "midtown" document.
C10_Witness ==
    /\ ClubsMapped
    /\ T_Midtown \in TxtFiles
    /\ D_downtown \in Docs
    /\ TxtIdentity(T_Midtown) \notin DocKeys
    /\ IsMapped(T_Midtown) /\ MappedTo(T_Midtown) = <<D_downtown>>


\* --- run --------------------------------------------------------------------

\* read_pricing_content_from_csv found rows of the club and none of them has
\* a fee type of fee_types: the list of fee rows to render is empty.
NoFeeRows == csvResult.ret = "tuple" /\ csvResult.feeRows = <<>>

\* C7: an empty list of fee rows is rendered as the empty string, and when
\* run gets that empty text for a text file it counts no document of the
\* text file as failed.
C7_EmptyTextIsNoFailure ==
    [][rpc = "txt" /\ NoFeeRows' =>
          /\ csvResult'.pricing_content = <<>>
          /\ failedCount' = failedCount]_vars

\* The first half of C7 alone, which holds: an empty list of fee rows is
\* rendered as the empty string.
C7_EmptyListEmptyText ==
    NoFeeRows => csvResult.pricing_content = <<>>

\* The failing case is reached: the CSV gave an empty text for Midtown.txt,
\* the text file has no pricing block, and both documents are counted failed.
C7_Reached ==
    /\ NoFeeRows
    /\ pricingContent = <<>>
    /\ failedCount = 2


\* --- the club matcher, order of the listings ---------------------------------

\* The listings that hold the same files as l, in every order.
Reorderings(l) ==
    {m \in [DOMAIN l -> Range(l)] : \A i, j \in DOMAIN l : m[i] = m[j] => i = j}

\* A mapping as the set of its items, which is what equality of two Python
\* dicts compares.
ItemSet(mapping) == Range(mapping)

\* C11: build_club_mapping returns the same mapping (same text files, same
\* document lists) for every order in which the two directories list the
\* same files.
C11_OrderIndependent ==
    ClubsMapped =>
        \A t \in Reorderings(txtDir), m \in Reorderings(mdDir) :
            ItemSet(build_club_mapping(t, m)) = ItemSet(clubMapping)

\* The same for directories in which no two documents have the same key,
\* which holds.
C11_DistinctKeys ==
    ClubsMapped /\ (\A d, e \in Docs : DocKey(d) = DocKey(e) => d = e) =>
        \A t \in Reorderings(txtDir), m \in Reorderings(mdDir) :
            ItemSet(build_club_mapping(t, m)) = ItemSet(clubMapping)

\* Two documents with the key "midtown": Midtown.txt is mapped to the one
\* listed last.
C11_Reached ==
    /\ ClubsMapped
    /\ mdDir = <<D_midtown, D_Midtown_zip>>
    /\ IsMapped(T_Midtown) /\ MappedTo(T_Midtown) = <<D_Midtown_zip>>


\* --- the legacy text renderer --------------------------------------------------

\* The item of the mapping run read the pricing content for last, or 0.
LastRead == IF rpc = "md" THEN item ELSE IF rpc = "txt" THEN item - 1 ELSE 0

\* The pricing content of that item was read from its text file.
ReadFromTxt ==
    /\ LastRead >= 1
    /\ ~(csvResult.ret = "tuple" /\ csvResult.pricing_content # <<>>)

\* C20: read_pricing_content_from_txt returns the block that starts at the
\* first "Member Type:" and ends at the next blank line, or at the end of the
\* text when no blank line follows; a text without "Member Type:" yields no
\* block.
C20_BlockEndsAtBlankLine ==
    ReadFromTxt =>
        pricingContent = BlockToBlankLine(txtText[clubMapping[LastRead].txt])

\* The part of C20 that holds: no block without "Member Type:", and a block
\* that starts at the first "Member Type:".
C20_BlockStart ==
    ReadFromTxt =>
        LET content == txtText[clubMapping[LastRead].txt]
            start == Find(content, S_MemberTypeColon, 1)
        IN  IF start = 0 THEN pricingContent = <<>>
            ELSE /\ pricingContent # <<>>
                 /\ IsAt(content, pricingContent[1], start)

\* C20, as the code has it: the block starts at the first "Member Type:" and
\* runs to the end of the text, blank lines and the lines after them
\* included, with the white space around it stripped; a text without
\* "Member Type:" yields no block.
C20_BlockRunsToEnd ==
    ReadFromTxt =>
        LET content == txtText[clubMapping[LastRead].txt]
            start == Find(content, S_MemberTypeColon, 1)
        IN  pricingContent =
                IF start = 0 THEN <<>> ELSE << Strip(From(content, start)) >>

\* A block was read from a text file with a blank line after its fee lines:
\* the block holds the network line that follows the blank line.
C20_Witness ==
    /\ ReadFromTxt
    /\ pricingContent # <<>>
    /\ Contains(pricingContent[1], <<"\n", "\n", "N", "e", "t", "w", "o", "r", "k">>)

\* The anchor of the pricing region: "Member Type:", later one of the two
\* availability labels, later the word "available".
AnchorPresent(s) ==
    \E i \in 1..Len(s) :
        /\ IsAt(s, S_MemberTypeColon, i)
        /\ \E label \in {S_SilverSneakers, S_InsuranceAvailability} :
               \E j \in (i + Len(S_MemberTypeColon))..Len(s) :
                   /\ IsAt(s, label, j)
                   /\ \E k \in (j + Len(label))..Len(s) : IsAt(s, S_available, k)

\* C12: the pricing splice on a document without the anchor ("Member Type:"
\* ... availability label ... "available") reports failure and leaves the
\* text of the document exactly as it was.
C12_NoAnchorNoChange ==
    (spc \in {"priced", "repriced"} /\ ~AnchorPresent(docText))
        => (priced.ok = FALSE /\ priced.text = docText)

\* A document that has "Member Type:" and an availability label but not the
\* whole anchor has been given to the pricing splice.
C12_Witness ==
    /\ spc = "priced"
    /\ ~AnchorPresent(docText)
    /\ Contains(docText, S_MemberTypeColon)
    /\ Contains(docText, S_InsuranceAvailability)
    /\ priced.ok = FALSE

\* The text with the first occurrence of p, and no other, replaced by r.
ReplaceFirst(s, p, r) ==
    LET i == Find(s, p, 1)
    IN  IF i = 0 THEN s
        ELSE SubSeq(s, 1, i - 1) \o r \o SubSeq(s, i + Len(p), Len(s))

\* The text the search of the pricing splice matches in a document.
MatchedSpan(s) == SubSeq(s, PricingMatch(s).at, PricingMatch(s).end - 1)

\* C13: a successful pricing splice replaces the first occurrence of the
\* matched text with the new content; every later occurrence of the same
\* text and everything outside the first occurrence is as it was.
C13_FirstOccurrenceOnly ==
    (spc \in {"priced", "repriced"} /\ priced.ok)
        => priced.text = ReplaceFirst(docText, MatchedSpan(docText), newContent)

\* A document in which the matched text occurs twice has been spliced.
C13_Reached ==
    /\ spc = "priced"
    /\ priced.ok
    /\ Find(docText, MatchedSpan(docText), PricingMatch(docText).end) # 0

\* C19: a document that was spliced with text rendered from fee rows holds
\* the pricing region again: the pricing splice finds it and succeeds when it
\* is applied to that document once more.
C19_SplicedAgain ==
    (spc = "repriced" /\ priced.ok /\ newContent \in RenderedInputs)
        => repriced.ok

\* The same for a block read from a text file, which ends with the
\* availability line.
C19_LegacySplicedAgain ==
    (spc = "repriced" /\ priced.ok /\ newContent = P_Legacy) => repriced.ok

\* A document made of one pricing block was spliced with rendered text that
\* starts with a Member Type row, and spliced again.
C19_Reached ==
    /\ spc = "repriced"
    /\ docText = P_Block
    /\ priced.ok
    /\ priced.text = newContent
    /\ newContent \in RenderedInputs
    /\ StartsWith(newContent, S_MemberTypeColon)

\* The document holds both signatures of the new fee text.
AlreadyCurrent(s) == Contains(s, S_sig_4995) /\ Contains(s, S_sig_8995)

\* C14: the fee splice applied to its own output leaves the text as the
\* first application left it; after a first application that changed the
\* document the second one finds the new text in place and reports success.
C14_Idempotent ==
    spc = "again"
        => /\ feeAgain.text = feeOut.text
           /\ feeOut.text # docText
                => (feeAgain.ok /\ AlreadyCurrent(feeOut.text))

\* The fee splice has changed a document and has been applied again.
C14_Witness ==
    /\ spc = "again"
    /\ feeOut.ok
    /\ feeOut.text # docText
    /\ ~AlreadyCurrent(docText)

\* C15: a fee splice that reports that it found no region (the phrase
\* "annual enhancement fee" is absent in every letter case, or a later step
\* found nothing to replace) leaves the text of the document unchanged.
C15_NotFoundNoChange ==
    (spc \in {"fee", "again"} /\ ~feeOut.ok) => feeOut.text = docText

\* The same for the phrase alone: without it the splice reports failure.
C15_NoPhraseFails ==
    (spc \in {"fee", "again"} /\ ~Contains(Lower(docText), S_annual_enhancement_fee))
        => (~feeOut.ok /\ feeOut.text = docText)

\* The phrase is in the document, next to a card fee but to neither of the
\* old amounts, and the splice has reported failure.
C15_Witness ==
    /\ spc = "fee"
    /\ ~feeOut.ok
    /\ Contains(Lower(docText), S_annual_enhancement_fee)
    /\ Contains(docText, S_299)

\* The paragraph of the fee disclaimer: from the phrase "annual enhancement
\* fee" to the next blank line, or to the end of the document.
DisclaimerParagraph(s) ==
    LET fee_pos == PyFind(Lower(s), S_annual_enhancement_fee, 0)
        stop == PyFind(s, <<"\n", "\n">>, fee_pos)
    IN  IF fee_pos = -1 THEN <<>>
        ELSE Slice(s, fee_pos, IF stop = -1 THEN Len(s) ELSE stop)

\* The text p occurs in s exactly once.
OccursOnce(s, p) ==
    LET i == Find(s, p, 1)
    IN  i # 0 /\ Find(s, p, i + 1) = 0

\* A document with one fee disclaimer, whose paragraph ends with the
\* trailer t, the only trailer of the document.
EndsWithTrailer(s, t) ==
    /\ OccursOnce(Lower(s), S_annual_enhancement_fee)
    /\ OccursOnce(Lower(s), <<"o","t","h","e","r"," ","t","e","r","m","s">>)
    /\ EndsWith(DisclaimerParagraph(s), t)

\* The trailers of the fragments, without the blank in front of them.
Trailers == {Strip(F_Trailer), Strip(F_TrailerLong)}

\* What may stand between the new text and the trailer.
Gaps == {<<>>, <<" ">>, <<"\n">>, <<"\n", "\n">>}

\* The last words of the new fee text, which occur nowhere else in it.
NewTextTail == SubSeq(new_enhancement_fee_text,
                      Len(new_enhancement_fee_text) - 23,
                      Len(new_enhancement_fee_text))

\* The trailer t follows the new fee text in s, after at most a gap.
FollowsNewText(s, t) ==
    LET i == Find(s, NewTextTail, 1)
    IN  /\ i # 0
        /\ \E gap \in Gaps : IsAt(s, gap \o t, i + Len(NewTextTail))

\* The fee splice took the generic branch on document s.
GenericBranch(s) ==
    LET fee_pos == PyFind(Lower(s), S_annual_enhancement_fee, 0)
        remaining_text == Slice(s, Max(0, fee_pos - 50), fee_pos + 400)
    IN  /\ fee_pos # -1
        /\ Contains(Lower(remaining_text), S_applies)
        /\ ~Contains(remaining_text, S_4999)
        /\ ~Contains(remaining_text, S_8998)
        /\ ~Contains(remaining_text, S_299)

\* C16: when the disclaimer paragraph of a document ends with the trailer
\* "Other terms and conditions apply. [Click here](url)" and the fee splice
\* replaces the disclaimer, in the generic and in the legacy branch, the
\* output holds that trailer, character for character, right after the new
\* fee text.
C16_TrailerPreserved ==
    (spc \in {"fee", "again"} /\ feeOut.text # docText)
        => \A t \in Trailers :
              EndsWithTrailer(docText, t)
                  => FollowsNewText(feeOut.text, t)

\* The same for the generic branch alone.
C16_GenericTrailerPreserved ==
    (spc \in {"fee", "again"} /\ feeOut.text # docText /\ GenericBranch(docText))
        => \A t \in Trailers :
              EndsWithTrailer(docText, t)
                  => FollowsNewText(feeOut.text, t)

\* In the generic branch the trailer is in the output twice.
C16_GenericTrailerTwice ==
    /\ spc = "fee"
    /\ docText = F_Generic \o F_Trailer
    /\ feeOut.text = new_enhancement_fee_text \o <<"\n", "\n">>
                        \o Strip(F_Trailer) \o Strip(F_Trailer)

\* The legacy branch has replaced a disclaimer whose paragraph ends with
\* the trailer.
C16_Reached ==
    /\ spc = "fee"
    /\ feeOut.text # docText
    /\ ~GenericBranch(docText)
    /\ \E t \in Trailers : EndsWithTrailer(docText, t)

\* The last entry of docLog.
LastDoc == docLog[Len(docLog)]

\* The text has a fee disclaimer the fee splice replaces: the phrase with
\* "applies" and no amount, or the phrase with one of the old amounts.
HasFeeRegion(s) ==
    /\ Contains(Lower(s), S_annual_enhancement_fee)
    /\ GenericBranch(s) \/ Contains(s, S_4999) \/ Contains(s, S_8998)

\* The number of documents of the mapping.
RECURSIVE TotalDocs(_)
TotalDocs(n) == IF n = 0 THEN 0 ELSE Len(clubMapping[n].mds) + TotalDocs(n - 1)

\* The documents of item i of the mapping that the loop has got to.
Logged(i) ==
    {k \in 1..Len(clubMapping[i].mds) :
        \E n \in DOMAIN docLog : /\ docLog[n].txt = clubMapping[i].txt
                                  /\ docLog[n].md = clubMapping[i].mds[k]}

\* run has a next step: the guard of one of the actions of NextRun holds and
\* what the action reads is there.  Every other conjunct of an action gives
\* a value to a primed variable, which is always possible.
RunCanStep ==
    \/ rpc = "start"
    \/ rpc = "txt" /\ item <= Len(clubMapping)
           /\ clubMapping[item].txt \in DOMAIN txtText
    \/ rpc = "txt" /\ item > Len(clubMapping)
    \/ rpc = "md" /\ item \in DOMAIN clubMapping
           /\ mdIdx \in DOMAIN clubMapping[item].mds
           /\ clubMapping[item].mds[mdIdx] \in DOMAIN mdText
           /\ ~IsFalsy(pricingContent)

\* C17: no failure for a club or for a document ends the run early: in
\* every state before the summary run has a next step, and at the summary
\* every document of every item has either gone through the loop or been
\* counted as failed with its club.
C17_FailureIsolation ==
    /\ rpc = "done" \/ RunCanStep
    /\ rpc = "done" =>
         /\ \A i \in DOMAIN clubMapping :
                Logged(i) = 1..Len(clubMapping[i].mds) \/ Logged(i) = {}
         /\ totalFilesProcessed = Len(docLog)
         /\ successCount + failedCount = TotalDocs(Len(clubMapping))
         /\ successCount = Cardinality({n \in DOMAIN docLog : docLog[n].pricing_success})

\* A run has got to its summary after a club without pricing content, a
\* copy that raised and a document without pricing region, each followed by
\* another document.
C17_Witness ==
    /\ rpc = "done"
    /\ Len(docLog) >= 2
    /\ failedCount > Cardinality({n \in DOMAIN docLog : ~docLog[n].pricing_success})
    /\ \E n \in 1..(Len(docLog) - 1) : docLog[n].fault = "copy"

\* The same after a read that raised inside a splice.
C17_ReachedAfterSpliceError ==
    /\ rpc = "done"
    /\ \E n \in 1..(Len(docLog) - 1) : docLog[n].fault \in {"pricing", "fee"}

\* C18: for one document the pricing splice and then the fee splice work on
\* the same copy, and each is tried whatever the other did: the outcome of
\* each follows from the region it looks for in the document alone, and the
\* file written holds the effect of every splice that succeeded.
C18_SplicesInSequence ==
    (/\ rpc \in {"txt", "md"} /\ docLog # <<>> /\ LastDoc.copied
     /\ ~IsFalsy(pricingContent)
     /\ rpc = "md" => LastDoc.txt = clubMapping[item].txt)
        => LET before == mdText[LastDoc.md]
               after == updatedDir[LastDoc.md]
           IN  /\ LastDoc.fault # "pricing"
                    => (LastDoc.pricing_success <=> AnchorPresent(before))
               /\ LastDoc.fault # "fee"
                    => (LastDoc.enhancement_fee_success <=> HasFeeRegion(before))
               /\ LastDoc.pricing_success => Contains(after, pricingContent[1])
               /\ LastDoc.enhancement_fee_success => AlreadyCurrent(after)
               /\ (~LastDoc.pricing_success /\ ~LastDoc.enhancement_fee_success)
                    => after = before

\* The four outcomes of one document, without a copy or a read that raised.
Outcome(pricing_success, enhancement_fee_success) ==
    /\ rpc \in {"txt", "md"} /\ docLog # <<>>
    /\ LastDoc.copied /\ LastDoc.fault = "none"
    /\ LastDoc.pricing_success = pricing_success
    /\ LastDoc.enhancement_fee_success = enhancement_fee_success

\* The disclaimer was updated and the pricing was not.
C18_Witness == Outcome(FALSE, TRUE)

C18_BothUpdated == Outcome(TRUE, TRUE)

C18_PricingOnly == Outcome(TRUE, FALSE)

C18_Neither == Outcome(FALSE, FALSE)

\* --- the splitter -----------------------------------------------------------

\* The k-th smallest element of a set of numbers.
Kth(S, k) == CHOOSE i \in S : Cardinality({j \in S : j < i}) = k - 1

\* What C21 says of section k, given the lines of the file and the set of the
\* indices of its club lines.
SectionOfClubLine(lines, idx, k) ==
    LET i == Kth(idx, k)
        next == IF k < Cardinality(idx) THEN Kth(idx, k + 1) ELSE Len(lines) + 1
        following == SelectSeq(SubSeq(lines, i + 1, next - 1),
                               LAMBDA l : l # L_Separator)
    IN  \A content \in {Split(clubSections[k].content, "\n")} :
           /\ clubSections[k].name = lines[i]
           /\ content[1] = lines[i]
           /\ content = <<lines[i]>> \o following
           /\ \A j \in DOMAIN content : content[j] # L_Separator

\* C21: the split yields one section per line that begins "Club Name: ", in
\* the order of the file; the content of a section starts with its club line,
\* goes on with every line that follows up to the next club line, the
\* separator lines left out, and holds no line of 80 "="; every file saved is
\* the content of a section, under the cleaned name of that section.
C21_OneSectionPerClubLine ==
    xpc \in {"split", "saved"} =>
        \A lines \in {ReadLines(splitText)} :
        \A idx \in {{i \in DOMAIN lines : StartsWith(lines[i], S_ClubNamePrefix)}} :
           /\ Len(clubSections) = Cardinality(idx)
           /\ \A k \in DOMAIN clubSections : SectionOfClubLine(lines, idx, k)
           /\ xpc = "saved" =>
                /\ clubFiles.saved_count = Len(clubSections)
                /\ \A f \in DOMAIN clubFiles.files :
                      \E k \in DOMAIN clubSections :
                         /\ f = clean_filename(clubSections[k].name) \o S_txt
                         /\ clubFiles.files[f] = clubSections[k].content

\* Two clubs were split and saved from a file with a separator line and a
\* pricing line in the section of the first club.
C21_Witness ==
    /\ xpc = "saved"
    /\ Len(clubSections) = 2
    /\ Cardinality(DOMAIN clubFiles.files) = 2
    /\ Contains(splitText, <<"\n">> \o L_Separator \o <<"\n">>)
    /\ Contains(clubSections[1].content, <<"\n">> \o L_PricingDetails)

\* A file that ends without "\n" was split: its last line is in the last section.
C21_ReachedUnterminated ==
    /\ xpc = "split"
    /\ clubSections # <<>>
    /\ splitText[Len(splitText)] # "\n"
    /\ EndsWith(clubSections[Len(clubSections)].content, L_PricingDetails)

\* The club name of a club line.
NameOf(club_line) == From(club_line, Len(S_ClubNamePrefix) + 1)

\* C29: for every club name n of the formatted file, the name recovered from
\* the name of its file, normalize_club_name(extract_club_name_from_txt(
\* clean_filename("Club Name: " + n) + ".txt")), equals normalize_club_name(n).
C29_NameRoundTrip ==
    xpc = "saved" =>
        \A k \in DOMAIN clubSections :
            \A f \in {clean_filename(clubSections[k].name) \o S_txt} :
               /\ f \in DOMAIN clubFiles.files
               /\ normalize_club_name(extract_club_name_from_txt(f))
                     = normalize_club_name(NameOf(clubSections[k].name))

\* The round trip of one name, n, that was saved.
RoundTrip(n) ==
    /\ xpc = "saved"
    /\ \E k \in DOMAIN clubSections : NameOf(clubSections[k].name) = n
    /\ normalize_club_name(
           extract_club_name_from_txt(clean_filename(S_ClubNamePrefix \o n) \o S_txt))
          = normalize_club_name(n)

\* The round trip holds for a name with an organization prefix followed by a
\* blank ("CFF: Mad" gives CFF__Mad.txt).
C29_ReachedPrefixed == RoundTrip(N_CFF_Madison)

\* The part of C29 that holds: the names made of letters, digits, blanks,
\* hyphens and underscores, with or without a prefix followed by a blank.
C29_PlainNames ==
    xpc = "saved" =>
        \A k \in DOMAIN clubSections :
            NameOf(clubSections[k].name) \in {N_Midtown, N_CFF_Madison}
                => RoundTrip(NameOf(clubSections[k].name))

\* --- the fee splice: the span that is replaced ------------------------------

\* The fee splice has changed the document.
FeeMutated == spc \in {"fee", "again"} /\ feeOut.ok /\ feeOut.text # docText

\* The anchor of the splice on document s (0-based): in the generic branch
\* the sentence "An Annual Enhancement Fee applies" when it is found from 50
\* characters before the phrase, else the phrase "annual enhancement fee".
Anchor(s) ==
    LET fee_pos == PyFind(Lower(s), S_annual_enhancement_fee, 0)
        an_pos == PyFind(Lower(s), S_an_annual_applies, Max(0, fee_pos - 50))
    IN  IF GenericBranch(s) /\ an_pos # -1 THEN an_pos ELSE fee_pos

\* The labels a replacement may start at.
L_AdditionalFees == <<"*","*","a","d","d","i","t","i","o","n","a","l"," ",
                      "f","e","e","s",":","*","*">>
L_AdditionalFee == <<"*","*","a","d","d","i","t","i","o","n","a","l"," ",
                     "f","e","e",":","*","*">>

\* The positions of s at which a label stands that directly precedes pos:
\* nothing but white space lies between the label and pos.
LabelStarts(s, pos, legacy) ==
    {p \in 0..pos :
        \E label \in {S_Note} \cup (IF legacy THEN {L_AdditionalFees, L_AdditionalFee}
                                    ELSE {}) :
           /\ IsAt(IF label = S_Note THEN s ELSE Lower(s), label, p + 1)
           /\ p + Len(label) <= pos
           /\ \A k \in (p + Len(label) + 1)..pos : s[k] \in Whitespace}

\* The first position of the line of s that holds pos.
LineStart(s, pos) == PyRFind(s, "\n", 0, pos) + 1

\* The output is the input up to position start, then the new fee text.
ReplacedFrom(start) ==
    StartsWith(feeOut.text, Slice(docText, 0, start) \o new_enhancement_fee_text)

\* C22: when the fee splice changes a document, in the generic and in the
\* legacy branch, the replacement starts at a "**Note:**" label (legacy
\* branch: or an "**Additional Fees:**" label) that directly precedes the
\* anchor, or at the first character of the line that holds the anchor.
C22_StartAtLabelOrLine ==
    FeeMutated =>
        \A anchor \in {Anchor(docText)} :
            \E start \in LabelStarts(docText, anchor, ~GenericBranch(docText))
                            \cup {LineStart(docText, anchor)} :
                ReplacedFrom(start)

\* A replacement that starts at a label directly before the anchor.
C22_ReachedLabel ==
    /\ FeeMutated
    /\ docText = F_Note \o F_Legacy \o F_Card
    /\ ReplacedFrom(0)

\* A replacement that starts at the start of the line of the anchor, after
\* an earlier line that is kept.
C22_ReachedLine ==
    /\ FeeMutated
    /\ docText = F_Sentence \o F_Legacy \o F_Card
    /\ ReplacedFrom(Len(F_Sentence))

\* The failing case: the label ends an earlier line, and the heading between
\* the label and the anchor is replaced with it.
C22_ReachedEarlierLabel ==
    /\ FeeMutated
    /\ docText = F_Note \o F_Heading \o F_Legacy \o F_Card
    /\ ReplacedFrom(0)

\* The failing case: no newline before the anchor, and the replacement starts
\* 50 characters before it, inside the line.
C22_ReachedInsideLine ==
    /\ FeeMutated
    /\ docText = F_TrailerLong \o F_Legacy \o F_Card
    /\ ReplacedFrom(Len(F_TrailerLong) - 50)


\* The fee splice has changed the document in the legacy branch.
LegacyMutated == FeeMutated /\ ~GenericBranch(docText)

\* The text holds the credit card clause.
HasCardClause(t) ==
    \/ Contains(t, S_299)
    \/ Contains(Lower(t), S_credit_card)
    \/ Contains(Lower(t), S_debit_card)

\* The end of the first candidate for the old paragraph: the first stop
\* ("Other terms and conditions apply", "[Click here", a heading after a blank
\* line, the end of the text) at or after the anchor.
FirstStop(low) == Least({e \in 0..Len(low) : LegacyStop(low, e)})

FirstCandidateEnd(s, fee_pos) ==
    fee_pos + CHOOSE e \in {FirstStop(low) : low \in {Lower(Slice(s, fee_pos, Len(s)))}} : TRUE

CardClauseInSpan(s, fee_pos, span, first) ==
    /\ Contains(Slice(s, fee_pos, Len(s)), S_299) =>
        /\ HasCardClause(Slice(s, fee_pos, span.end_pos))
        /\ ~HasCardClause(Slice(s, fee_pos, first)) => span.end_pos > first
    /\ ~Contains(Slice(s, fee_pos, Len(s)), S_299)
       /\ ~HasCardClause(Slice(s, fee_pos, first)) =>
            span.end_pos = first

LiteralInWindow(s, literals) ==
    \A fee_pos \in {PyFind(Lower(s), S_annual_enhancement_fee, 0)} :
        \E literal \in literals :
            Contains(Slice(s, fee_pos, fee_pos + 500), literal)

\* The splice has run on a document that holds the phrase, does not hold the
\* new text yet and does not meet the generic condition.
LegacyCandidate ==
    /\ spc = "fee"
    /\ Contains(Lower(docText), S_annual_enhancement_fee)
    /\ ~AlreadyCurrent(docText)
    /\ ~GenericBranch(docText)

\* C24: when the generic condition does not hold, the fee splice changes the
\* document if and only if "$49.99", "$89.98" or "$2.99" occurs within the
\* 500 characters after the anchor; otherwise it reports that it found no
\* region and leaves the document as it was.
C24_MutatesIffLegacyLiteral ==
    LegacyCandidate =>
        /\ FeeMutated <=> LiteralInWindow(docText, {S_4999, S_8998, S_299})
        /\ ~FeeMutated => (~feeOut.ok /\ feeOut.text = docText)

\* What the code does: the same with "$49.99" and "$89.98" only.
C24_MutatesIffOldAmount ==
    LegacyCandidate =>
        /\ FeeMutated <=> LiteralInWindow(docText, {S_4999, S_8998})
        /\ ~FeeMutated => (~feeOut.ok /\ feeOut.text = docText)

\* The failing case: "$2.99" is the only literal after the anchor, and the
\* document is left as it was.
C24_ReachedCardOnly ==
    /\ LegacyCandidate
    /\ docText = F_Generic \o F_Card
    /\ LiteralInWindow(docText, {S_299})
    /\ ~feeOut.ok /\ feeOut.text = docText

\* A legacy document that is changed.
C24_ReachedMutated ==
    /\ LegacyCandidate
    /\ docText = F_Legacy \o F_Card
    /\ FeeMutated


\* The span the fee splice replaces in document s.
FeeSpan(s) ==
    IF GenericBranch(s) THEN GenericSpanAt(s, Anchor(s)) ELSE LegacySpan(s, Anchor(s))

\* The span lies around the anchor and inside the document, and out is the
\* document with the span replaced by the new text and the preserved trailer.
WellFormedSplice(s, anchor, span, out) ==
    /\ 0 <= span.start_pos
    /\ span.start_pos <= anchor
    /\ anchor <= span.end_pos
    /\ span.end_pos <= Len(s)
    /\ out = Slice(s, 0, span.start_pos) \o new_enhancement_fee_text
                \o span.preserved_text \o Slice(s, span.end_pos, Len(s))

\* The fee splice changes the document in this step.
FeeMutates ==
    spc = "build" /\ spc' = "fee" /\ feeOut'.ok /\ feeOut'.text # docText

\* C25: whenever the fee splice changes a document, the replaced region is a
\* span with 0 <= start <= anchor <= end <= length of the document, and the
\* output is the document up to start, the new text, the preserved trailer
\* and the document from end on.
C25_WellFormedSpan ==
    [][FeeMutates =>
        WellFormedSplice(docText, Anchor(docText), FeeSpan(docText), feeOut'.text)]_vars

\* The same for the legacy branch alone.
C25_LegacyWellFormedSpan ==
    [][FeeMutates /\ ~GenericBranch(docText) =>
        WellFormedSplice(docText, Anchor(docText), FeeSpan(docText), feeOut'.text)]_vars

\* The same for the generic branch when a trailer, a link or the end of a
\* sentence is found after the anchor.
C25_GenericWellFormedSpan ==
    [][FeeMutates /\ GenericBranch(docText)
            /\ (\/ FeeSpan(docText).preserved_text # <<>>
                \/ FirstMatch(Slice(docText, Anchor(docText), Anchor(docText) + 300),
                              0, SentenceEnd).at # -1) =>
        WellFormedSplice(docText, Anchor(docText), FeeSpan(docText), feeOut'.text)]_vars

\* The failing case: no trailer, no link, no sentence end and no newline after
\* the anchor; the end is the length of the text after the anchor, which lies
\* before the start, and the characters between are written twice.
C25_ReachedEndBeforeStart ==
    /\ FeeMutated
    /\ docText = F_TrailerLong \o F_Generic \o F_Note
    /\ FeeSpan(docText).end_pos < FeeSpan(docText).start_pos
    /\ Len(feeOut.text) > Len(Slice(docText, 0, FeeSpan(docText).start_pos))
                            + Len(new_enhancement_fee_text)
                            + Len(docText) - Anchor(docText)

\* A legacy splice with a well-formed span and a preserved trailer.
C25_ReachedLegacy ==
    /\ FeeMutated
    /\ docText = F_Sentence \o F_Legacy \o F_Card \o F_Trailer
    /\ FeeSpan(docText).start_pos = Len(F_Sentence)
    /\ FeeSpan(docText).end_pos = Len(docText)
    /\ FeeSpan(docText).preserved_text # <<>>


\* The two parts of a trailing fragment, in lower case.
T_other_terms == <<"o","t","h","e","r"," ","t","e","r","m","s"," ","a","n","d"," ",
                   "c","o","n","d","i","t","i","o","n","s"," ","a","p","p","l","y">>
T_click_here == <<"[","c","l","i","c","k"," ","h","e","r","e","]","(">>

\* How often p occurs in s.
Occurrences(s, p) == Cardinality({i \in 1..(Len(s) - Len(p) + 1) : IsAt(s, p, i)})

\* The output holds each part of a trailing fragment as often as the input.
SameTrailers(in, out) ==
    \A t \in {T_other_terms, T_click_here} :
        Occurrences(Lower(out), t) = Occurrences(Lower(in), t)

\* C26: a trailing fragment that the fee splice preserves ("Other terms and
\* conditions apply ..." and/or a "[Click here](url)" link) is neither lost
\* nor duplicated: in the generic and in the legacy branch the output holds
\* the fragment as often as the input.
C26_TrailerCountKept ==
    [][FeeMutates => SameTrailers(docText, feeOut'.text)]_vars

\* The generic branch writes the fragment twice.
C26_ReachedDuplicate ==
    /\ FeeMutated
    /\ docText = F_Generic \o F_Trailer
    /\ Occurrences(Lower(docText), T_other_terms) = 1
    /\ Occurrences(Lower(feeOut.text), T_other_terms) = 2
    /\ Occurrences(Lower(feeOut.text), T_click_here) = 2

\* The legacy branch loses the fragment that stands before the credit card
\* clause.
C26_ReachedLost ==
    /\ FeeMutated
    /\ docText = F_Legacy \o F_Trailer \o F_Card
    /\ Occurrences(Lower(docText), T_other_terms) = 1
    /\ Occurrences(Lower(feeOut.text), T_other_terms) = 0

\* The legacy branch keeps the fragment that follows the credit card clause.
C26_ReachedKept ==
    /\ FeeMutated
    /\ docText = F_Legacy \o F_Card \o F_Trailer
    /\ FeeSpan(docText).preserved_text = <<"\n", "\n">> \o Strip(F_Trailer)
    /\ SameTrailers(docText, feeOut.text)


\* --- run: the counters of the summary ---------------------------------------

\* run finds pricing content for item i of the mapping.
HasPricingContent(i) ==
    \A txt_file \in {clubMapping[i].txt} :
        ~IsFalsy(AcquirePricingContent(
                    csvExists,
                    IF csvExists
                    THEN read_pricing_content_from_csv(
                             csvHeader, csvRows, extract_club_name_from_txt(txt_file))
                    ELSE Unset,
                    txtText[txt_file]))

\* The number of documents of the items of the mapping that are in the set I.
RECURSIVE DocsOf(_, _)
DocsOf(I, n) ==
    IF n = 0 THEN 0
    ELSE (IF n \in I THEN Len(clubMapping[n].mds) ELSE 0) + DocsOf(I, n - 1)

\* C27: at the summary of run every (text file, document) pair of the mapping
\* has been counted exactly once: success_count + failed_count is the number
\* of documents over all items of the mapping, and total_files_processed is
\* at most that number, and equal to it when every matched club had pricing
\* content.
C27_CountersAddUp ==
    rpc = "done" =>
        \A total \in {TotalDocs(Len(clubMapping))} :
            \A with_content \in {{i \in DOMAIN clubMapping : HasPricingContent(i)}} :
                /\ successCount + failedCount = total
                /\ totalFilesProcessed <= total
                /\ with_content = DOMAIN clubMapping => totalFilesProcessed = total
                /\ totalFilesProcessed = DocsOf(with_content, Len(clubMapping))
                /\ \A n, m \in DOMAIN docLog :
                       (docLog[n].txt = docLog[m].txt /\ docLog[n].md = docLog[m].md)
                           => n = m

\* A summary after a club with two documents and no pricing content and a
\* club with pricing content: fewer documents processed than counted.
C27_Witness ==
    /\ rpc = "done"
    /\ \E i \in DOMAIN clubMapping :
           Len(clubMapping[i].mds) >= 2 /\ ~HasPricingContent(i)
    /\ \E i \in DOMAIN clubMapping : HasPricingContent(i)
    /\ 0 < totalFilesProcessed
    /\ totalFilesProcessed < successCount + failedCount

\* A summary where every club had pricing content and one copy raised.
C27_ReachedAllProcessed ==
    /\ rpc = "done"
    /\ Len(clubMapping) >= 2
    /\ \A i \in DOMAIN clubMapping : HasPricingContent(i)
    /\ \E n \in DOMAIN docLog : docLog[n].fault = "copy"
    /\ totalFilesProcessed = successCount + failedCount


\* --- the club matcher: the targets of the text files ------------------------

\* The items of the mapping that have the document among their targets.
ItemsWith(md_file) ==
    {i \in DOMAIN clubMapping : md_file \in Range(clubMapping[i].mds)}

\* C28: no document is the target of two text files in the mapping that
\* build_club_mapping returns (direct match, alias and multi-mapping never
\* resolve two text files to the same document).
C28_OneTextFilePerDocument ==
    mpc = "mapped" =>
        \A md_file \in Range(mdDir) : Cardinality(ItemsWith(md_file)) <= 1

\* The failing case: the text file of Midtown has the document of Downtown
\* as its second target (multi-mapping) and the text file of Downtown has it
\* as its direct match.
C28_ReachedSharedDocument ==
    /\ mpc = "mapped"
    /\ Len(clubMapping) = 2
    /\ {clubMapping[1].txt, clubMapping[2].txt} = {T_Midtown, T_Downtown}
    /\ Cardinality(ItemsWith(D_downtown)) = 2

\* Two text files with different targets.
C28_ReachedDisjoint ==
    /\ mpc = "mapped"
    /\ Len(clubMapping) = 2
    /\ {clubMapping[1].txt, clubMapping[2].txt} = {T_Midtown, T_Madison}
    /\ \A md_file \in Range(mdDir) : Cardinality(ItemsWith(md_file)) <= 1
    /\ \E md_file \in Range(mdDir) : ItemsWith(md_file) = {2}


\* --- run: the last loop over the output directory ---------------------------

\* The entries of the loop's log for documents that were copied.
Copied == {n \in DOMAIN docLog : docLog[n].copied}

\* Entry n is the last one of the log for its document.
LastFor(n) == \A m \in Copied : docLog[m].md = docLog[n].md => m <= n

\* The last loop is taken in this step.
SweepStep == rpc = "txt" /\ rpc' = "done"

C30_ReachedRetry ==
    /\ rpc = "done"
    /\ \E n \in Copied :
           /\ docLog[n].fault = "fee"
           /\ ~docLog[n].enhancement_fee_success
           /\ sweep.returned[docLog[n].md]
           /\ AlreadyCurrent(updatedDir[docLog[n].md])

=============================================================================
